---- MODULE Spec2Model ----
(***************************************************************************)
(* Pocket-Concierge: the DNS query pipeline (Handler.ServeDNS with its     *)
(* local step and its upstream failover) and the HostCache index.          *)
(*                                                                         *)
(* Strings are sequences of one-character strings, so that lowercasing,    *)
(* trimming, suffix tests and concatenation are computed, not assumed.     *)
(***************************************************************************)
EXTENDS Integers, Sequences, FiniteSets, TLC

\* ------------------------------------------------------------------------
\* Bounds of the model
\* ------------------------------------------------------------------------
MaxQuestions == 2
MaxUpstreams == 3

\* ------------------------------------------------------------------------
\* Strings (package strings, dns.Fqdn)
\* ------------------------------------------------------------------------
UpperAlpha == <<"A","B","C","D","E","F","G","H","I","J","K","L","M",
                "N","O","P","Q","R","S","T","U","V","W","X","Y","Z">>
LowerAlpha == <<"a","b","c","d","e","f","g","h","i","j","k","l","m",
                "n","o","p","q","r","s","t","u","v","w","x","y","z">>

ToLowerChar(c) ==
    IF \E i \in 1..Len(UpperAlpha) : UpperAlpha[i] = c
    THEN LowerAlpha[CHOOSE i \in 1..Len(UpperAlpha) : UpperAlpha[i] = c]
    ELSE c

\* strings.ToLower
ToLower(s) == [i \in 1..Len(s) |-> ToLowerChar(s[i])]

ToUpperChar(c) ==
    IF \E i \in 1..Len(LowerAlpha) : LowerAlpha[i] = c
    THEN UpperAlpha[CHOOSE i \in 1..Len(LowerAlpha) : LowerAlpha[i] = c]
    ELSE c

\* a name in upper case
ToUpper(s) == [i \in 1..Len(s) |-> ToUpperChar(s[i])]

\* strings.HasSuffix
HasSuffix(s, suf) ==
    /\ Len(s) >= Len(suf)
    /\ SubSeq(s, Len(s) - Len(suf) + 1, Len(s)) = suf

\* strings.TrimSuffix: removes ONE occurrence of the suffix, if present
TrimSuffix(s, suf) ==
    IF HasSuffix(s, suf) THEN SubSeq(s, 1, Len(s) - Len(suf)) ELSE s

\* strings.Contains for a one-character needle
ContainsChar(s, c) == \E i \in 1..Len(s) : s[i] = c

IsSpace(c) == c \in {" ", "\t", "\n", "\r"}

RECURSIVE TrimLeft(_)
TrimLeft(s) ==
    IF s # <<>> /\ IsSpace(Head(s)) THEN TrimLeft(Tail(s)) ELSE s

RECURSIVE TrimRight(_)
TrimRight(s) ==
    IF s # <<>> /\ IsSpace(s[Len(s)]) THEN TrimRight(SubSeq(s, 1, Len(s) - 1)) ELSE s

\* strings.TrimSpace
TrimSpace(s) == TrimRight(TrimLeft(s))

\* dns.Fqdn: the name with a trailing dot
Fqdn(s) == IF HasSuffix(s, <<".">>) THEN s ELSE s \o <<".">>

\* ------------------------------------------------------------------------
\* The names and address literals the model draws from
\* ------------------------------------------------------------------------
sHome == <<"h","o","m","e">>
sLan == <<"l","a","n">>
sNas == <<"n","a","s">>
sNasUpper == <<"N","A","S">>
sLab == <<"l","a","b">>
sCom == <<"c","o","m">>
sEvil == <<"e","v","i","l">>
sSub == <<"s","u","b">>
sNot == <<"n","o","t">>
sOrg == <<"o","r","g">>
sX == <<"x">>
sV6 == <<"v","6">>
sMix == <<"m","i","x">>
sHomeCap == <<"H","o","m","e">>
sDot == <<".">>

nNasLab == sNas \o sDot \o sLab
nNasHome == sNas \o sDot \o sHome
nEvilCom == sEvil \o sDot \o sCom
nSubEvilCom == sSub \o sDot \o nEvilCom
nNotEvilCom == sNot \o nEvilCom
nXOrg == sX \o sDot \o sOrg
nNasLabHome == nNasLab \o sDot \o sHome
nV6Home == sV6 \o sDot \o sHome
nMixHome == sMix \o sDot \o sHome

\* net.ParseIP: the literals that parse, by family ("" = does not parse)
IPFamily(ip) ==
    CASE ip \in {"192.168.1.101", "192.168.1.102", "192.168.1.20",
                 "127.0.0.1", "0.0.0.0"} -> "v4"
      [] ip \in {"2001:db8::1", "2001:db8::2"} -> "v6"
      [] OTHER -> ""

ParseIP(ip) == IF IPFamily(ip) = "" THEN "nil" ELSE ip

\* net.IP.To4: nil for an address that is not IPv4
To4(ip) == IF IPFamily(ip) = "v4" THEN ip ELSE "nil"

\* net.IP.To16
To16(ip) == IF IPFamily(ip) = "" THEN "nil" ELSE ip

\* uint32(ttl): the int modulo 2^32, held as its two 16-bit halves <<high, low>>
Uint32(n) == <<(n \div 65536) % 65536, n % 65536>>

\* ------------------------------------------------------------------------
\* Configuration (config.Config, config.HostEntry, config.UpstreamServer)
\* ------------------------------------------------------------------------
DefaultTTL == 300

hNas == [Hostname |-> sNas,
         IPv4 |-> <<"192.168.1.101", "192.168.1.102">>,
         IPv6 |-> <<"2001:db8::1">>]
hNasLab == [Hostname |-> nNasLab, IPv4 |-> <<"192.168.1.20">>, IPv6 |-> <<>>]
hV6 == [Hostname |-> sV6, IPv4 |-> <<>>, IPv6 |-> <<"2001:db8::2">>]
\* a hostname configured in upper case
hNasUpper == [Hostname |-> sNasUpper, IPv4 |-> <<"192.168.1.101">>, IPv6 |-> <<>>]
\* a qualified hostname that is also the full name of the bare nas
hNasHome == [Hostname |-> nNasHome, IPv4 |-> <<"192.168.1.20">>, IPv6 |-> <<>>]
\* an IPv6 literal listed under ipv4: Validate only asks that it parses
hMix == [Hostname |-> sMix, IPv4 |-> <<"2001:db8::1">>, IPv6 |-> <<>>]

\* hosts[] of the configurations the handler runs with
HandlerHostLists == {<<>>, <<hNas>>, <<hNasLab, hV6>>}

\* hosts[] of the configurations the index is built from
CacheHostLists ==
    {<<>>, <<hNas>>, <<hNasLab>>, <<hV6>>, <<hNas, hNasLab>>, <<hNasLab, hV6>>, <<hV6, hNas>>,
     <<hNas, hNasHome>>}

\* dns.block_list
BlockLists == {<<>>, <<nEvilCom, nNasLab>>}

UpstreamProtocols == <<"udp", "tls", "udp", "https">>
UpstreamAddresses == <<"10.0.0.1", "1.1.1.1", "8.8.8.8", "9.9.9.9">>
UpstreamPorts == <<53, 853, 53, 443>>

\* the i-th configured upstream server
UpstreamAt(i) ==
    LET k == ((i - 1) % Len(UpstreamProtocols)) + 1 IN
    [Address |-> UpstreamAddresses[k], Protocol |-> UpstreamProtocols[k],
     Port |-> UpstreamPorts[k],
     Path |-> IF UpstreamProtocols[k] = "https" THEN "/dns-query" ELSE "",
     Verify |-> TRUE]

UpstreamLists == {[i \in 1..n |-> UpstreamAt(i)] : n \in 0..MaxUpstreams}

MkConfig(hosts, home, ttl, rec, block, ups) ==
    [Hosts |-> hosts, HomeDNSDomain |-> home,
     DNS |-> [TTL |-> ttl, EnableRecursion |-> rec, BlockList |-> block],
     Upstream |-> ups]

HandlerConfigs ==
    {MkConfig(h, sHome, DefaultTTL, r, b, u) :
        h \in HandlerHostLists, r \in BOOLEAN, b \in BlockLists, u \in UpstreamLists}

CacheConfigs ==
    {MkConfig(h, d, t, FALSE, <<>>, <<>>) :
        h \in CacheHostLists, d \in {<<>>, sHome, sLan, sHomeCap}, t \in {DefaultTTL, 600}}

\* variant: any name that ends with the characters of a pattern is blocked
IsBlockedAnySuffix(c, name) ==
    LET n == TrimSuffix(ToLower(name), sDot) IN
    \E i \in 1..Len(c.DNS.BlockList) : HasSuffix(n, c.DNS.BlockList[i])

\* Config.IsBlocked: the name, lowercased and without its trailing dot, is a
\* pattern of the block list or ends with "." + pattern
IsBlocked(c, name) ==
    LET n == TrimSuffix(ToLower(name), sDot) IN
    \E i \in 1..Len(c.DNS.BlockList) :
        \/ n = c.DNS.BlockList[i]
        \/ HasSuffix(n, sDot \o c.DNS.BlockList[i])

\* ------------------------------------------------------------------------
\* HostCache (internal/dns/cache.go)
\* ------------------------------------------------------------------------
EmptyMap == [k \in {} |-> <<>>]

\* m[k] = v on a Go map
MapPut(m, k, v) == [x \in (DOMAIN m) \cup {k} |-> IF x = k THEN v ELSE m[x]]

\* m[k] of a Go map of slices: the nil slice for a missing key
MapGetSeq(m, k) == IF k \in DOMAIN m THEN m[k] ELSE <<>>

sTypeA == <<"A">>
sTypeAAAA == <<"A","A","A","A">>

RRA(fullHostname, ip, ttl) ==
    [Name |-> Fqdn(fullHostname), Rrtype |-> "A", Class |-> "IN",
     Ttl |-> Uint32(ttl), Data |-> To4(ParseIP(ip))]

RRAAAA(fullHostname, ip, ttl) ==
    [Name |-> Fqdn(fullHostname), Rrtype |-> "AAAA", Class |-> "IN",
     Ttl |-> Uint32(ttl), Data |-> To16(ParseIP(ip))]

\* one round of a loop of buildRecords: the record is appended under the
\* full name's key and then under the short name's key
AppendBoth(records, shortName, fullHostname, suffix, rr) ==
    LET kFull == ToLower(fullHostname) \o suffix
        kShort == ToLower(shortName) \o suffix
        r1 == MapPut(records, kFull, Append(MapGetSeq(records, kFull), rr))
    IN  MapPut(r1, kShort, Append(MapGetSeq(r1, kShort), rr))

RECURSIVE BuildA(_, _, _, _, _, _)
BuildA(records, shortName, fullHostname, ips, ttl, i) ==
    IF i > Len(ips) THEN records
    ELSE IF ParseIP(ips[i]) = "nil"
         THEN BuildA(records, shortName, fullHostname, ips, ttl, i + 1)
         ELSE BuildA(AppendBoth(records, shortName, fullHostname, <<":">> \o sTypeA,
                                RRA(fullHostname, ips[i], ttl)),
                     shortName, fullHostname, ips, ttl, i + 1)

RECURSIVE BuildAAAA(_, _, _, _, _, _)
BuildAAAA(records, shortName, fullHostname, ips, ttl, i) ==
    IF i > Len(ips) THEN records
    ELSE IF ParseIP(ips[i]) = "nil"
         THEN BuildAAAA(records, shortName, fullHostname, ips, ttl, i + 1)
         ELSE BuildAAAA(AppendBoth(records, shortName, fullHostname, <<":">> \o sTypeAAAA,
                                   RRAAAA(fullHostname, ips[i], ttl)),
                        shortName, fullHostname, ips, ttl, i + 1)

\* HostCache.buildRecords
buildRecords(records, shortName, fullHostname, host, ttl) ==
    BuildAAAA(BuildA(records, shortName, fullHostname, host.IPv4, ttl, 1),
              shortName, fullHostname, host.IPv6, ttl, 1)

\* the full hostname of a configured host (Rebuild)
FullHostname(normalizedName, homeDomain) ==
    IF ContainsChar(normalizedName, ".")
    THEN normalizedName
    ELSE normalizedName \o sDot \o homeDomain

HomeDomainOf(c) == IF c.HomeDNSDomain = <<>> THEN sHome ELSE c.HomeDNSDomain

\* the loop of HostCache.Rebuild from host i on; a host is held by its index
RECURSIVE RebuildFrom(_, _, _)
RebuildFrom(cache, c, i) ==
    IF i > Len(c.Hosts) THEN cache
    ELSE
      LET host == c.Hosts[i]
          normalizedName == ToLower(TrimSuffix(host.Hostname, sDot))
          fullHostname == FullHostname(normalizedName, HomeDomainOf(c))
          h1 == MapPut(cache.hosts, normalizedName, i)
          h2 == MapPut(h1, normalizedName \o sDot, i)
          h3 == MapPut(h2, fullHostname, i)
          h4 == MapPut(h3, fullHostname \o sDot, i)
      IN RebuildFrom([hosts |-> h4,
                      records |-> buildRecords(cache.records, normalizedName,
                                               fullHostname, host, c.DNS.TTL)],
                     c, i + 1)

\* HostCache.Rebuild: both tables are cleared, then filled from the config
Rebuild(c) == RebuildFrom([hosts |-> EmptyMap, records |-> EmptyMap], c, 1)

\* NewHostCache
NewHostCache(c) == Rebuild(c)

\* HostCache.Lookup: the index of the host in cfg.Hosts, 0 when not found
Lookup(cache, hostname) ==
    LET normalizedName == ToLower(TrimSpace(hostname)) IN
    IF normalizedName \in DOMAIN cache.hosts THEN cache.hosts[normalizedName] ELSE 0

\* HostCache.LookupRecords
LookupRecords(cache, hostname, qtype) ==
    LET normalizedName == ToLower(TrimSuffix(hostname, sDot)) IN
    IF qtype \notin {"A", "AAAA"} THEN <<>>
    ELSE MapGetSeq(cache.records,
                   normalizedName \o <<":">> \o (IF qtype = "A" THEN sTypeA ELSE sTypeAAAA))

\* Resolver.ResolveFast
ResolveFast(cache, hostname, qtype) == LookupRecords(cache, hostname, qtype)

\* Config.GetHostByName: the first host whose configured name is hostname
GetHostByName(c, hostname) ==
    IF \E i \in 1..Len(c.Hosts) : c.Hosts[i].Hostname = hostname
    THEN CHOOSE i \in 1..Len(c.Hosts) :
             /\ c.Hosts[i].Hostname = hostname
             /\ \A j \in 1..(i - 1) : c.Hosts[j].Hostname # hostname
    ELSE 0

sDotHome == sDot \o sHome

\* Resolver.ResolveLocal of the Resolver that scans the configuration
\* (internal/dns/resolver.go)
ResolveLocalScan(c, hostname) ==
    LET h == ToLower(TrimSpace(hostname)) IN
    IF GetHostByName(c, h) # 0 THEN GetHostByName(c, h)
    ELSE IF ~HasSuffix(h, sDotHome) /\ GetHostByName(c, h \o sDotHome) # 0
         THEN GetHostByName(c, h \o sDotHome)
    ELSE IF HasSuffix(h, sDotHome)
         THEN GetHostByName(c, TrimSuffix(h, sDotHome))
         ELSE 0

\* the Resolver without a HostCache
NoHostCache == [scan |-> TRUE]

HasHostCache(cache) == "hosts" \in DOMAIN cache

\* NewResolver: the Resolver holds a HostCache built from the configuration,
\* or (resolver.go) the configuration alone
Resolvers(c) == {NewHostCache(c), NoHostCache}

\* Resolver.ResolveLocal
ResolveLocal(c, cache, hostname) ==
    IF HasHostCache(cache) THEN Lookup(cache, hostname) ELSE ResolveLocalScan(c, hostname)


\* ------------------------------------------------------------------------
\* Requests, responses and upstream replies (dns.Msg)
\* ------------------------------------------------------------------------
RequestId == 12345

qNasHomeA == [Name |-> nNasHome \o sDot, Qtype |-> "A"]
qNasLabA == [Name |-> nNasLab \o sDot, Qtype |-> "A"]
qSubEvilA == [Name |-> nSubEvilCom \o sDot, Qtype |-> "A"]
qXOrgAAAA == [Name |-> nXOrg \o sDot, Qtype |-> "AAAA"]

QuestionPool == {qNasHomeA, qNasLabA, qSubEvilA, qXOrgAAAA}

RECURSIVE SeqsUpTo(_, _)
SeqsUpTo(S, n) ==
    IF n = 0 THEN {<<>>}
    ELSE LET shorter == SeqsUpTo(S, n - 1) IN
         shorter \cup {Append(q, x) : q \in {t \in shorter : Len(t) = n - 1}, x \in S}

\* the decoded requests handed to ServeDNS
Requests == {[Id |-> RequestId, Question |-> qs] : qs \in SeqsUpTo(QuestionPool, MaxQuestions)}

NoRequest == [Id |-> 0, Question |-> <<>>]
NoResponse == [Id |-> 0, Response |-> FALSE, Authoritative |-> FALSE,
               RecursionAvailable |-> FALSE, Rcode |-> "NOERROR",
               Question |-> <<>>, Answer |-> <<>>]

\* dns.Msg.SetReply on a fresh message
SetReply(r) ==
    [Id |-> r.Id, Response |-> TRUE, Authoritative |-> FALSE,
     RecursionAvailable |-> FALSE, Rcode |-> "NOERROR",
     Question |-> IF Len(r.Question) > 0 THEN <<r.Question[1]>> ELSE <<>>,
     Answer |-> <<>>]

\* what SecureClient.Query can return for question q asked of upstream u:
\* an error, a nil message, or a message with any rcode, with or without answers
NoReply == [kind |-> "none", rcode |-> "NOERROR", answers |-> <<>>]
ErrReply == [kind |-> "err", rcode |-> "NOERROR", answers |-> <<>>]
NilReply == [kind |-> "nil", rcode |-> "NOERROR", answers |-> <<>>]

UpstreamAnswers(u, q, n) ==
    [k \in 1..n |-> [Name |-> q.Name, Rrtype |-> q.Qtype, Class |-> "IN",
                     Ttl |-> Uint32(60), Data |-> <<UpstreamAt(u).Address, k>>]]

AnswerCounts == {0, 2}

QueryOutcomes(u, q) ==
    {ErrReply, NilReply} \cup
    {[kind |-> "msg", rcode |-> rc, answers |-> UpstreamAnswers(u, q, n)] :
        rc \in {"NOERROR", "NXDOMAIN"}, n \in AnswerCounts}

\* ------------------------------------------------------------------------
\* Handler (internal/dns/handler.go)
\* ------------------------------------------------------------------------
\* Handler.createARecord; <<>> stands for the nil record
createARecord(c, name, ip) ==
    IF ParseIP(ip) = "nil" THEN <<>>
    ELSE <<[Name |-> name, Rrtype |-> "A", Class |-> "IN",
            Ttl |-> Uint32(c.DNS.TTL), Data |-> ParseIP(ip)]>>

\* Handler.createAAAARecord
createAAAARecord(c, name, ip) ==
    IF ParseIP(ip) = "nil" THEN <<>>
    ELSE <<[Name |-> name, Rrtype |-> "AAAA", Class |-> "IN",
            Ttl |-> Uint32(c.DNS.TTL), Data |-> ParseIP(ip)]>>

RECURSIVE ARecords(_, _, _, _)
ARecords(c, name, ips, i) ==
    IF i > Len(ips) THEN <<>>
    ELSE createARecord(c, name, ips[i]) \o ARecords(c, name, ips, i + 1)

RECURSIVE AAAARecords(_, _, _, _)
AAAARecords(c, name, ips, i) ==
    IF i > Len(ips) THEN <<>>
    ELSE createAAAARecord(c, name, ips[i]) \o AAAARecords(c, name, ips, i + 1)

\* Handler.resolveLocally
resolveLocally(c, cache, question) ==
    LET hostname == ToLower(TrimSuffix(question.Name, sDot))
        hi == ResolveLocal(c, cache, hostname)
    IN  IF hi = 0 THEN <<>>
        ELSE CASE question.Qtype = "A" -> ARecords(c, question.Name, c.Hosts[hi].IPv4, 1)
               [] question.Qtype = "AAAA" -> AAAARecords(c, question.Name, c.Hosts[hi].IPv6, 1)
               [] question.Qtype = "ANY" ->
                    ARecords(c, question.Name, c.Hosts[hi].IPv4, 1)
                    \o AAAARecords(c, question.Name, c.Hosts[hi].IPv6, 1)
               [] OTHER -> <<>>

\* the number of answer records a reply carries (none for an error or nil)
AnswersIn(out) == IF out.kind = "msg" THEN Len(out.answers) ELSE 0

\* variant: a reply counts only when its rcode is NOERROR as well
UpstreamSucceededNoError(out) ==
    /\ out.kind # "err"
    /\ out.kind # "nil"
    /\ out.rcode = "NOERROR"
    /\ Len(out.answers) > 0

\* forwardUpstream's test of one reply: no error, a message, and answers in it
UpstreamSucceeded(out) ==
    /\ out.kind # "err"
    /\ out.kind # "nil"
    /\ Len(out.answers) > 0

\* variant: forwarding regardless of dns.enable_recursion
ShouldForwardAlways(c) == TRUE

\* ServeDNS's decision to forward a question that has no local answer
ShouldForward(c) == c.DNS.EnableRecursion

\* cfg, hc:       the installed configuration and the HostCache built from it
\* pc .. written: one execution of ServeDNS: its position, the request, the
\*                response under construction, the question and upstream loop
\*                indices, the Query calls made (question, upstream, answers
\*                returned), the last Query result, the WriteMsg calls
\* call:          the last direct call of the index's API and its result
\* mutex:         HostCache.mutex: whether a writer holds it, and how many
\*                readers do
\* rb:            one execution of HostCache.Rebuild: its position, its
\*                argument, the host and address loop indices, the number of
\*                executions that have returned and the configuration that
\*                was installed before the last one
\* rd:            the goroutines that read the index: position, call, result
\* clients:       SecureClient.clients, the pooled DNS clients by key
\* srv:           the Server: the state of its listener, the positions of the
\*                goroutines inside Start and Stop and what they returned
VARIABLES cfg, hc, pc, req, resp, qi, ui, queries, reply, written, call,
          mutex, rb, rd, clients, srv

vars == <<cfg, hc, pc, req, resp, qi, ui, queries, reply, written, call,
          mutex, rb, rd, clients, srv>>

\* the state of the index's lock, of Rebuild, of the readers and of the pool
aux == <<mutex, rb, rd, clients, srv>>

\* sync.RWMutex, not held
Unlocked == [writer |-> FALSE, readers |-> 0]

\* no execution of Rebuild under way
NoRebuild == [pc |-> "idle", cfg |-> <<>>, i |-> 0, j |-> 0, n |-> 0, prev |-> <<>>]

\* the goroutines that call Lookup and LookupRecords
Readers == {"r1", "r2"}

NoRead == [pc |-> "idle", op |-> "none", name |-> <<>>, qtype |-> "", out |-> <<>>]

\* NewSecureClient: clients: make(map[string]*dns.Client)
NoClients == [k \in {} |-> <<>>]

\* no Server has been made
NoServer == [state |-> "none"]

\* nothing rebuilds or reads the index, the pool is empty, there is no Server
AuxInit ==
    /\ mutex = Unlocked
    /\ rb = NoRebuild
    /\ rd = [r \in Readers |-> NoRead]
    /\ clients = NoClients
    /\ srv = NoServer

NoCall == [op |-> "none", name |-> <<>>, qtype |-> "", out |-> <<>>]

Init ==
    /\ cfg \in HandlerConfigs
    /\ hc = NewHostCache(cfg)
    /\ pc = "idle"
    /\ req = NoRequest
    /\ resp = NoResponse
    /\ qi = 0
    /\ ui = 0
    /\ queries = <<>>
    /\ reply = NoReply
    /\ written = <<>>
    /\ call = NoCall
    /\ AuxInit

\* the pc after question qi: the next question, or the write
AfterQuestion(r, i) == IF i + 1 > Len(r.Question) THEN "write" ELSE "question"

\* variant: the reply is prepared without the authoritative bit
ReceiveNotAuthoritative(r) ==
    /\ pc = "idle"
    /\ req' = r
    /\ resp' = SetReply(r)
    /\ qi' = 1
    /\ ui' = 0
    /\ queries' = <<>>
    /\ reply' = NoReply
    /\ written' = <<>>
    /\ pc' = AfterQuestion(r, 0)
    /\ UNCHANGED <<cfg, hc, call>>
    /\ UNCHANGED aux

\* ServeDNS is entered with a decoded request: the response is prepared
Receive(r) ==
    /\ pc = "idle"
    /\ req' = r
    /\ resp' = [SetReply(r) EXCEPT !.Authoritative = TRUE]
    /\ qi' = 1
    /\ ui' = 0
    /\ queries' = <<>>
    /\ reply' = NoReply
    /\ written' = <<>>
    /\ pc' = AfterQuestion(r, 0)
    /\ UNCHANGED <<cfg, hc, call>>
    /\ UNCHANGED aux

\* variant: the local answers are appended but the loop does not continue to
\* the next question: the question is forwarded as well
AnswerLocallyFallThrough ==
    /\ pc = "question"
    /\ LET local == resolveLocally(cfg, hc, req.Question[qi]) IN
        /\ Len(local) > 0
        /\ resp' = [resp EXCEPT !.Answer = resp.Answer \o local]
    /\ IF cfg.DNS.EnableRecursion /\ Len(cfg.Upstream) > 0
       THEN /\ qi' = qi
            /\ ui' = 1
            /\ pc' = "forward"
       ELSE /\ qi' = qi + 1
            /\ ui' = ui
            /\ pc' = AfterQuestion(req, qi)
    /\ UNCHANGED <<cfg, hc, req, queries, reply, written, call>>
    /\ UNCHANGED aux

\* a handler over each configuration whose block list is empty: ServeDNS never
\* reads the block list
InitFair == Init /\ cfg.DNS.BlockList = <<>>

\* the local step of the question loop found answers
AnswerLocally ==
    /\ pc = "question"
    /\ LET local == resolveLocally(cfg, hc, req.Question[qi]) IN
        /\ Len(local) > 0
        /\ resp' = [resp EXCEPT !.Answer = resp.Answer \o local]
    /\ qi' = qi + 1
    /\ pc' = AfterQuestion(req, qi)
    /\ UNCHANGED <<cfg, hc, req, ui, queries, reply, written, call>>
    /\ UNCHANGED aux

\* variant: the upstream loop starts at the last configured upstream
StartForwardLast ==
    /\ pc = "question"
    /\ Len(resolveLocally(cfg, hc, req.Question[qi])) = 0
    /\ cfg.DNS.EnableRecursion
    /\ Len(cfg.Upstream) > 0
    /\ ui' = Len(cfg.Upstream)
    /\ pc' = "forward"
    /\ UNCHANGED <<cfg, hc, req, resp, qi, queries, reply, written, call>>
    /\ UNCHANGED aux

\* no local answer, recursion enabled: forwardUpstream starts its loop
StartForward ==
    /\ pc = "question"
    /\ Len(resolveLocally(cfg, hc, req.Question[qi])) = 0
    /\ ShouldForward(cfg)
    /\ Len(cfg.Upstream) > 0
    /\ ui' = 1
    /\ pc' = "forward"
    /\ UNCHANGED <<cfg, hc, req, resp, qi, queries, reply, written, call>>
    /\ UNCHANGED aux

\* variant: an unanswered question turns the response into SERVFAIL
NoResolutionServfail ==
    /\ pc = "question"
    /\ Len(resolveLocally(cfg, hc, req.Question[qi])) = 0
    /\ ~(cfg.DNS.EnableRecursion /\ Len(cfg.Upstream) > 0)
    /\ resp' = [resp EXCEPT !.Rcode = "SERVFAIL"]
    /\ qi' = qi + 1
    /\ pc' = AfterQuestion(req, qi)
    /\ UNCHANGED <<cfg, hc, req, ui, queries, reply, written, call>>
    /\ UNCHANGED aux

\* no local answer and nothing to forward to: the question stays unanswered
NoResolution ==
    /\ pc = "question"
    /\ Len(resolveLocally(cfg, hc, req.Question[qi])) = 0
    /\ ~(ShouldForward(cfg) /\ Len(cfg.Upstream) > 0)
    /\ qi' = qi + 1
    /\ pc' = AfterQuestion(req, qi)
    /\ UNCHANGED <<cfg, hc, req, resp, ui, queries, reply, written, call>>
    /\ UNCHANGED aux

\* variant: the loop goes on to the next upstream after a reply with answers
UpstreamQueryKeepsAsking(out) ==
    /\ pc = "forward"
    /\ queries' = Append(queries, [q |-> qi, u |-> ui, n |-> AnswersIn(out)])
    /\ resp' = IF UpstreamSucceeded(out)
               THEN [resp EXCEPT !.Answer = resp.Answer \o out.answers] ELSE resp
    /\ reply' = out
    /\ IF ui < Len(cfg.Upstream)
       THEN /\ ui' = ui + 1
            /\ qi' = qi
            /\ pc' = "forward"
       ELSE /\ ui' = 0
            /\ qi' = qi + 1
            /\ pc' = AfterQuestion(req, qi)
    /\ UNCHANGED <<cfg, hc, req, written, call>>
    /\ UNCHANGED aux

\* one round of forwardUpstream's loop: Query on upstream ui and its handling
UpstreamQuery(out) ==
    /\ pc = "forward"
    /\ queries' = Append(queries, [q |-> qi, u |-> ui, n |-> AnswersIn(out)])
    /\ IF UpstreamSucceeded(out)
       THEN /\ resp' = [resp EXCEPT !.Answer = resp.Answer \o out.answers]
            /\ reply' = out
            /\ qi' = qi + 1
            /\ ui' = 0
            /\ pc' = AfterQuestion(req, qi)
       ELSE /\ resp' = resp
            /\ reply' = out
            /\ IF ui < Len(cfg.Upstream)
               THEN /\ ui' = ui + 1
                    /\ qi' = qi
                    /\ pc' = "forward"
               ELSE /\ ui' = 0
                    /\ qi' = qi + 1
                    /\ pc' = AfterQuestion(req, qi)
    /\ UNCHANGED <<cfg, hc, req, written, call>>
    /\ UNCHANGED aux

\* forwardUpstream's loop, with whatever the upstream answers
ForwardUpstream ==
    /\ pc = "forward"
    /\ \E out \in QueryOutcomes(ui, req.Question[qi]) : UpstreamQuery(out)

\* variant: a failed write is tried again
WriteResponseRetry(ok) ==
    /\ pc = "write"
    /\ written' = Append(written, [msg |-> resp, ok |-> ok])
    /\ pc' = IF ok THEN "done" ELSE "write"
    /\ UNCHANGED <<cfg, hc, req, resp, qi, ui, queries, reply, call>>
    /\ UNCHANGED aux

\* w.WriteMsg(response); a failure is logged only
WriteResponse(ok) ==
    /\ pc = "write"
    /\ written' = Append(written, [msg |-> resp, ok |-> ok])
    /\ pc' = "done"
    /\ UNCHANGED <<cfg, hc, req, resp, qi, ui, queries, reply, call>>
    /\ UNCHANGED aux

\* ServeDNS returns; its locals are gone
Return ==
    /\ pc = "done"
    /\ pc' = "idle"
    /\ req' = NoRequest
    /\ resp' = NoResponse
    /\ qi' = 0
    /\ ui' = 0
    /\ queries' = <<>>
    /\ reply' = NoReply
    /\ written' = <<>>
    /\ UNCHANGED <<cfg, hc, call>>
    /\ UNCHANGED aux

Next ==
    \/ \E r \in Requests : Receive(r)
    \/ AnswerLocally
    \/ StartForward
    \/ NoResolution
    \/ ForwardUpstream
    \/ \E ok \in BOOLEAN : WriteResponse(ok)
    \/ Return

Spec == Init /\ [][Next]_vars


\* ------------------------------------------------------------------------
\* The index called directly (HostCache.LookupRecords, HostCache.Lookup)
\* ------------------------------------------------------------------------
LookupNames ==
    {sNas, sNas \o sDot, sNasUpper, nNasHome, nNasHome \o sDot, sNas \o sDot \o sLan,
     nNasLab, nNasLab \o sDot, nNasLab \o sDot \o sHome, sV6, sV6 \o sDot \o sHome, nXOrg}

QueryTypes == {"A", "AAAA", "ANY", "MX"}

InitCache ==
    /\ cfg \in CacheConfigs
    /\ hc = NewHostCache(cfg)
    /\ pc = "idle"
    /\ req = NoRequest
    /\ resp = NoResponse
    /\ qi = 0
    /\ ui = 0
    /\ queries = <<>>
    /\ reply = NoReply
    /\ written = <<>>
    /\ call = NoCall
    /\ AuxInit

CallLookupRecords(name, qtype) ==
    /\ call' = [op |-> "LookupRecords", name |-> name, qtype |-> qtype,
                out |-> LookupRecords(hc, name, qtype)]
    /\ UNCHANGED <<cfg, hc, pc, req, resp, qi, ui, queries, reply, written>>
    /\ UNCHANGED aux

CallLookup(name) ==
    /\ call' = [op |-> "Lookup", name |-> name, qtype |-> "",
                out |-> Lookup(hc, name)]
    /\ UNCHANGED <<cfg, hc, pc, req, resp, qi, ui, queries, reply, written>>
    /\ UNCHANGED aux

NextCache ==
    \/ \E name \in LookupNames, qtype \in QueryTypes : CallLookupRecords(name, qtype)
    \/ \E name \in LookupNames : CallLookup(name)

CacheSpec == InitCache /\ [][NextCache]_vars


\* ------------------------------------------------------------------------
\* The block list asked directly (Config.IsBlocked)
\* ------------------------------------------------------------------------
BlockPatterns == {nEvilCom, nNasLab, nXOrg}

BlockListPool == BlockLists \cup {<<nEvilCom>>, <<nNasLab>>, <<nXOrg, nEvilCom>>}

BlockConfigs == {MkConfig(<<>>, sHome, DefaultTTL, TRUE, b, <<>>) : b \in BlockListPool}

\* the names asked about: each pattern as it is, with a trailing dot, in upper
\* case, as a subdomain one and two labels deep, with characters put before
\* it or after it, its last label alone, and the empty name
BlockNames ==
    {<<>>, sCom, sDot}
    \cup UNION {{p, p \o sDot, ToUpper(p), ToUpper(p) \o sDot,
                 sSub \o sDot \o p, sSub \o sDot \o p \o sDot,
                 sX \o sDot \o sSub \o sDot \o p \o sDot,
                 sX \o sDot \o sSub \o sDot \o ToUpper(p) \o sDot,
                 sNot \o p, p \o sNot, p \o sDot \o sSub} : p \in BlockPatterns}

InitBlock ==
    /\ cfg \in BlockConfigs
    /\ hc = NewHostCache(cfg)
    /\ pc = "idle"
    /\ req = NoRequest
    /\ resp = NoResponse
    /\ qi = 0
    /\ ui = 0
    /\ queries = <<>>
    /\ reply = NoReply
    /\ written = <<>>
    /\ call = NoCall
    /\ AuxInit

CallIsBlocked(name) ==
    /\ call' = [op |-> "IsBlocked", name |-> name, qtype |-> "",
                out |-> IsBlocked(cfg, name)]
    /\ UNCHANGED <<cfg, hc, pc, req, resp, qi, ui, queries, reply, written>>
    /\ UNCHANGED aux

NextBlock == \E name \in BlockNames : CallIsBlocked(name)

BlockSpec == InitBlock /\ [][NextBlock]_vars


\* ------------------------------------------------------------------------
\* The local step of ServeDNS on single-question requests, over more kinds
\* of hosts, names, question types and TTLs, with either Resolver
\* ------------------------------------------------------------------------
LocalHostLists == {<<hNas>>, <<hNasLab, hV6>>, <<hNasUpper>>, <<hMix>>}

\* dns.ttl is an int that Validate does not constrain
LocalTTLs == {DefaultTTL, 70000, -1}

LocalConfigs ==
    {MkConfig(h, sHome, t, r, <<>>, <<UpstreamAt(1)>>) :
        h \in LocalHostLists, t \in LocalTTLs, r \in BOOLEAN}

LocalNames ==
    {sNas \o sDot, sNasUpper \o sDot, nNasHome \o sDot, nNasLab \o sDot,
     nNasLabHome \o sDot, nV6Home \o sDot, nMixHome \o sDot, nXOrg \o sDot}

LocalRequests ==
    {[Id |-> RequestId, Question |-> <<[Name |-> n, Qtype |-> t]>>] :
        n \in LocalNames, t \in QueryTypes}

InitLocal ==
    /\ cfg \in LocalConfigs
    /\ hc \in Resolvers(cfg)
    /\ pc = "idle"
    /\ req = NoRequest
    /\ resp = NoResponse
    /\ qi = 0
    /\ ui = 0
    /\ queries = <<>>
    /\ reply = NoReply
    /\ written = <<>>
    /\ call = NoCall
    /\ AuxInit

NextLocal ==
    \/ \E r \in LocalRequests : Receive(r)
    \/ AnswerLocally
    \/ StartForward
    \/ NoResolution
    \/ ForwardUpstream
    \/ \E ok \in BOOLEAN : WriteResponse(ok)
    \/ Return

LocalSpec == InitLocal /\ [][NextLocal]_vars


\* ------------------------------------------------------------------------
\* Properties
\* ------------------------------------------------------------------------
Range(f) == {f[i] : i \in DOMAIN f}

\* the local answers to each question under each configuration, by the index
\* that NewHostCache builds from it
LocalTable ==
    [c \in HandlerConfigs |->
        [q \in QuestionPool |-> resolveLocally(c, NewHostCache(c), q)]]

\* the questions that name a blocked domain, under each configuration
BlockedTable ==
    [c \in HandlerConfigs |-> {q \in QuestionPool : IsBlocked(c, q.Name)}]

\* the local answers of question k of the request being served
LocalOf(k) == LocalTable[cfg][req.Question[k]]

\* question k of the request names a blocked domain
BlockedQ(k) == req.Question[k] \in BlockedTable[cfg]

\* the Query calls made for question k, and the one that returned answers
QueriesFor(k) == {i \in 1..Len(queries) : queries[i].q = k}
AcceptedFor(k) == {i \in QueriesFor(k) : queries[i].n > 0}

\* what question k is expected to add to the answer section
Contribution(k) ==
    LET local == LocalOf(k) IN
    IF Len(local) > 0 THEN local
    ELSE IF AcceptedFor(k) # {}
         THEN LET i == CHOOSE i \in AcceptedFor(k) : TRUE IN
              UpstreamAnswers(queries[i].u, req.Question[k], queries[i].n)
         ELSE <<>>

RECURSIVE Offset(_)
Offset(k) == IF k <= 1 THEN 0 ELSE Offset(k - 1) + Len(Contribution(k - 1))

\* the part of the answer section that question k added
SegmentIs(k, answers) ==
    LET off == Offset(k) IN
    /\ off + Len(answers) <= Len(resp.Answer)
    /\ SubSeq(resp.Answer, off + 1, off + Len(answers)) = answers

\* a reply that carries answers
HasAnswers(out) == out.kind = "msg" /\ Len(out.answers) > 0

\* question k is done and nothing resolved it
Unresolved(k) ==
    /\ k < qi
    /\ ~BlockedQ(k)
    /\ Len(LocalOf(k)) = 0
    /\ (~cfg.DNS.EnableRecursion \/ AcceptedFor(k) = {})

\* C1: every execution of ServeDNS calls WriteMsg exactly once, after the
\* last question has been processed, and a failed write is not repeated.
C1_WriteExactlyOnce ==
    /\ Len(written) <= 1
    /\ (pc = "done" => Len(written) = 1)
    /\ (Len(written) = 1 => pc = "done" /\ qi = Len(req.Question) + 1)

C1_Witness ==
    /\ pc = "done"
    /\ Len(written) = 1
    /\ ~written[1].ok
    /\ Len(req.Question) = 2
    /\ Len(queries) = Len(cfg.Upstream) * 2
    /\ Len(cfg.Upstream) = 3

\* C2: a response to a request with a blocked question has rcode NXDOMAIN,
\* the authoritative bit, and no answer record owned by the blocked name.
C2_BlockedIsNxdomain ==
    \A w \in 1..Len(written) : \A k \in 1..Len(req.Question) :
        BlockedQ(k) =>
            /\ written[w].msg.Rcode = "NXDOMAIN"
            /\ written[w].msg.Authoritative
            /\ \A j \in 1..Len(written[w].msg.Answer) :
                   written[w].msg.Answer[j].Name # req.Question[k].Name

\* C3: no Query call is ever made for a blocked question.
C3_BlockedNeverForwarded ==
    \A i \in 1..Len(queries) : ~BlockedQ(queries[i].q)

\* C4: a name that is configured in hosts[] and blocked is answered NXDOMAIN
\* and none of its locally configured records is in the response.
C4_BlockBeforeLocal ==
    \A w \in 1..Len(written) : \A k \in 1..Len(req.Question) :
        (BlockedQ(k) /\ Len(LocalOf(k)) > 0) =>
            /\ written[w].msg.Rcode = "NXDOMAIN"
            /\ Range(written[w].msg.Answer) \cap Range(LocalOf(k)) = {}

\* C5: for every forwarded question of every request the Query calls go to
\* the configured upstreams in order from the first, one by one; no call
\* follows a reply that carried answers; and the answers the question adds to
\* the response are those of the upstream that returned answers.
C5_FailoverInOrder ==
    /\ \A i \in 1..Len(queries) :
          /\ queries[i].u = IF i > 1 /\ queries[i - 1].q = queries[i].q
                            THEN queries[i - 1].u + 1 ELSE 1
          /\ queries[i].u <= Len(cfg.Upstream)
          /\ (i < Len(queries) /\ queries[i + 1].q = queries[i].q) => queries[i].n = 0
          /\ (i > 1 => queries[i - 1].q <= queries[i].q)
    /\ \A k \in 1..(qi - 1) : \A i \in AcceptedFor(k) :
          SegmentIs(k, UpstreamAnswers(queries[i].u, req.Question[k], queries[i].n))

C5_Witness ==
    /\ pc = "done"
    /\ Len(req.Question) = 1
    /\ Len(queries) = 3
    /\ queries[1] = [q |-> 1, u |-> 1, n |-> 0]
    /\ queries[2] = [q |-> 1, u |-> 2, n |-> 0]
    /\ queries[3] = [q |-> 1, u |-> 3, n |-> 2]
    /\ written[1].msg.Answer = UpstreamAnswers(3, req.Question[1], 2)

\* C6: in every round of forwardUpstream the reply is taken iff it is a
\* message with at least one answer, whatever its rcode: then its answers are
\* appended and the question is done; otherwise the response is untouched and
\* the next upstream is tried (or, after the last one, the question is done).
C6_FailureIsNoAnswers ==
    [][ Len(queries') = Len(queries) + 1 =>
          IF HasAnswers(reply')
          THEN /\ resp'.Answer = resp.Answer \o reply'.answers
               /\ qi' = qi + 1
               /\ pc' # "forward"
          ELSE /\ resp' = resp
               /\ \/ (ui < Len(cfg.Upstream) /\ pc' = "forward" /\ ui' = ui + 1 /\ qi' = qi)
                  \/ (ui = Len(cfg.Upstream) /\ pc' # "forward" /\ qi' = qi + 1)
      ]_vars

C6_Witness ==
    /\ reply.kind = "msg"
    /\ reply.rcode = "NXDOMAIN"
    /\ Len(reply.answers) > 0
    /\ pc = "done"
    /\ Len(queries) = 2
    /\ queries[1].n = 0
    /\ written[1].msg.Answer = reply.answers

\* C7: a non-blocked question with local answers gets exactly these records
\* in the response and causes no Query call.
C7_LocalShortCircuits ==
    \A k \in 1..Len(req.Question) :
        (~BlockedQ(k) /\ Len(LocalOf(k)) > 0) =>
            /\ QueriesFor(k) = {}
            /\ (k < qi => SegmentIs(k, LocalOf(k)))

C7_Witness ==
    /\ pc = "done"
    /\ cfg.DNS.EnableRecursion
    /\ Len(cfg.Upstream) = 3
    /\ Len(req.Question) = 2
    /\ ~BlockedQ(2)
    /\ Len(LocalOf(2)) > 0
    /\ Len(LocalOf(1)) = 0
    /\ AcceptedFor(1) # {}

RECURSIVE LocalAnswers(_)
LocalAnswers(k) == IF k <= 0 THEN <<>> ELSE LocalAnswers(k - 1) \o LocalOf(k)

\* C8: with recursion disabled no Query call is made, and the response holds
\* the local answers only: a question without local match adds nothing.
C8_NoRecursionNoQuery ==
    ~cfg.DNS.EnableRecursion =>
        /\ queries = <<>>
        /\ \A w \in 1..Len(written) :
               written[w].msg.Answer = LocalAnswers(Len(req.Question))

C8_Witness ==
    /\ ~cfg.DNS.EnableRecursion
    /\ Len(cfg.Upstream) = 3
    /\ pc = "done"
    /\ Len(req.Question) = 2
    /\ Len(LocalOf(1)) = 0
    /\ Len(LocalOf(2)) > 0

RECURSIVE ResolvedLen(_)
ResolvedLen(k) ==
    IF k <= 0 THEN 0
    ELSE ResolvedLen(k - 1) + (IF Unresolved(k) THEN 0 ELSE Len(Contribution(k)))

IndexedFor(c, i, name) ==
    LET n == ToLower(TrimSuffix(name, sDot))
        short == ToLower(TrimSuffix(c.Hosts[i].Hostname, sDot))
    IN  n \in {short, FullHostname(short, HomeDomainOf(c))}

\* C10: a lookup of a configured host's name returns one record per
\* configured address of the asked family, in the configured order.
C10_OneRecordPerAddress ==
    call.op = "LookupRecords" =>
        \A i \in 1..Len(cfg.Hosts) :
            IndexedFor(cfg, i, call.name) =>
                /\ (call.qtype = "A" /\ Len(cfg.Hosts[i].IPv4) > 0) =>
                      /\ Len(call.out) = Len(cfg.Hosts[i].IPv4)
                      /\ \A j \in 1..Len(call.out) :
                             /\ call.out[j].Rrtype = "A"
                             /\ call.out[j].Data = cfg.Hosts[i].IPv4[j]
                /\ (call.qtype = "AAAA" /\ Len(cfg.Hosts[i].IPv6) > 0) =>
                      /\ Len(call.out) = Len(cfg.Hosts[i].IPv6)
                      /\ \A j \in 1..Len(call.out) :
                             /\ call.out[j].Rrtype = "AAAA"
                             /\ call.out[j].Data = cfg.Hosts[i].IPv6[j]


\* ------------------------------------------------------------------------
\* Properties of the local step
\* ------------------------------------------------------------------------
\* host i is configured with a name that contains a dot
IsQualified(c, i) == ContainsChar(ToLower(TrimSuffix(c.Hosts[i].Hostname, sDot)), ".")

\* the records a name of host i is expected to return per configured address
PerAddress(c, i) == IF IsQualified(c, i) THEN 2 ELSE 1

\* ServeDNS is done with a request of one question that was not forwarded
ServedLocally ==
    /\ pc = "done"
    /\ Len(req.Question) = 1
    /\ queries = <<>>

\* the question of a single-question request, and the answers written for it
TheQuestion == req.Question[1]
TheAnswers == written[1].msg.Answer

\* C11: for a hostname configured with a dot, LookupRecords returns 2*n A and
\* 2*m AAAA records and ServeDNS answers the local query with the same
\* counts; for a bare hostname the counts are n and m.
C11_QualifiedNamesDoubled ==
    \A i \in 1..Len(cfg.Hosts) :
        LET host == cfg.Hosts[i]
            k == PerAddress(cfg, i)
        IN  /\ HasHostCache(hc) =>
                  /\ Len(LookupRecords(hc, host.Hostname, "A")) = k * Len(host.IPv4)
                  /\ Len(LookupRecords(hc, host.Hostname, "AAAA")) = k * Len(host.IPv6)
            /\ (ServedLocally /\ TheQuestion.Name = Fqdn(host.Hostname)) =>
                  /\ TheQuestion.Qtype = "A" => Len(TheAnswers) = k * Len(host.IPv4)
                  /\ TheQuestion.Qtype = "AAAA" => Len(TheAnswers) = k * Len(host.IPv6)

\* the full name of host i: its name as configured, or the bare label with
\* the home domain
FullNameOf(c, i) ==
    IF IsQualified(c, i) THEN c.Hosts[i].Hostname
    ELSE c.Hosts[i].Hostname \o sDot \o HomeDomainOf(c)

\* C12: for a host configured with a bare label h, a lookup of h and a lookup
\* of h.<home domain>, with or without trailing dot, return the same answers
\* (the same records, and the same host to build answers from).
C12_ShortAndFullAgree ==
    \A i \in 1..Len(cfg.Hosts) :
        (~IsQualified(cfg, i) /\ call.name \in {cfg.Hosts[i].Hostname, Fqdn(cfg.Hosts[i].Hostname)}) =>
            /\ (call.op = "LookupRecords" /\ call.qtype \in {"A", "AAAA"}) =>
                  /\ call.out = LookupRecords(hc, FullNameOf(cfg, i), call.qtype)
                  /\ call.out = LookupRecords(hc, Fqdn(FullNameOf(cfg, i)), call.qtype)
            /\ call.op = "Lookup" =>
                  /\ call.out = Lookup(hc, FullNameOf(cfg, i))
                  /\ call.out = Lookup(hc, Fqdn(FullNameOf(cfg, i)))

\* the spellings of a name that must be indistinguishable
Spellings(name) == {name, ToUpper(name), ToLower(name)}

\* C13: the local lookup gives the same result for a name N, upper(N) and
\* lower(N): the same host from ResolveLocal, the same records from
\* LookupRecords, the same answers from the local step of ServeDNS.
C13_CaseInsensitive ==
    Len(req.Question) = 1 =>
        \A n \in Spellings(TheQuestion.Name) :
            /\ ResolveLocal(cfg, hc, n) = ResolveLocal(cfg, hc, TheQuestion.Name)
            /\ HasHostCache(hc) =>
                  LookupRecords(hc, n, TheQuestion.Qtype)
                      = LookupRecords(hc, TheQuestion.Name, TheQuestion.Qtype)
            /\ ServedLocally =>
                  TheAnswers = resolveLocally(cfg, hc, [Name |-> n, Qtype |-> TheQuestion.Qtype])

\* C14: for a host configured with a name q that contains a dot, a query for
\* q is answered locally, and a query for q.<home domain> gets no local
\* answer: it is forwarded if recursion is enabled and otherwise answered
\* NOERROR with an empty answer section.
C14_NoSuffixOnQualified ==
    (pc = "done" /\ Len(req.Question) = 1) =>
        \A i \in 1..Len(cfg.Hosts) :
            IsQualified(cfg, i) =>
                /\ (TheQuestion.Name = Fqdn(cfg.Hosts[i].Hostname)
                     /\ TheQuestion.Qtype = "A" /\ Len(cfg.Hosts[i].IPv4) > 0) =>
                       /\ queries = <<>>
                       /\ Len(TheAnswers) > 0
                /\ TheQuestion.Name = Fqdn(cfg.Hosts[i].Hostname \o sDot \o HomeDomainOf(cfg)) =>
                       /\ cfg.DNS.EnableRecursion => queries # <<>>
                       /\ queries = <<>> =>
                             /\ TheAnswers = <<>>
                             /\ written[1].msg.Rcode = "NOERROR"

\* the host that the name of the question refers to (0: none)
HostAsked == ResolveLocal(cfg, hc, ToLower(TrimSuffix(TheQuestion.Name, sDot)))

\* every record is of type t and holds an address of family fam out of ips
OnlyFamily(rrs, t, fam, ips) ==
    \A j \in 1..Len(rrs) :
        /\ rrs[j].Rrtype = t
        /\ rrs[j].Data \in Range(ips)
        /\ IPFamily(rrs[j].Data) = fam

\* C15: the records returned locally for type A are A records holding IPv4
\* addresses of the host's ipv4 list, those for AAAA are AAAA records holding
\* IPv6 addresses of its ipv6 list; a host without addresses of the asked
\* family gets no local answer, and NOERROR.
C15_OwnFamilyOnly ==
    (Len(req.Question) = 1 /\ HostAsked # 0) =>
        LET host == cfg.Hosts[HostAsked]
            q == TheQuestion
        IN  /\ HasHostCache(hc) =>
                  /\ OnlyFamily(LookupRecords(hc, q.Name, "A"), "A", "v4", host.IPv4)
                  /\ OnlyFamily(LookupRecords(hc, q.Name, "AAAA"), "AAAA", "v6", host.IPv6)
            /\ (ServedLocally /\ q.Qtype = "A") => OnlyFamily(TheAnswers, "A", "v4", host.IPv4)
            /\ (ServedLocally /\ q.Qtype = "AAAA") => OnlyFamily(TheAnswers, "AAAA", "v6", host.IPv6)
            /\ (pc = "done" /\ ((q.Qtype = "A" /\ host.IPv4 = <<>>)
                                \/ (q.Qtype = "AAAA" /\ host.IPv6 = <<>>))) =>
                  /\ written[1].msg.Rcode = "NOERROR"
                  /\ queries = <<>> => TheAnswers = <<>>
                  /\ cfg.DNS.EnableRecursion => queries # <<>>

\* C16: a question of a type other than A and AAAA gets no local answer, even
\* for a configured host, and is forwarded when recursion is enabled.
C16_OnlyAddressTypesLocal ==
    (pc = "done" /\ Len(req.Question) = 1 /\ TheQuestion.Qtype \notin {"A", "AAAA"}) =>
        /\ cfg.DNS.EnableRecursion => queries # <<>>
        /\ queries = <<>> => TheAnswers = <<>>

\* the canonical form of the full name of host i: lowercase, fully
\* qualified, with trailing dot
CanonicalOf(c, i) ==
    Fqdn(ToLower(FullHostname(ToLower(TrimSuffix(c.Hosts[i].Hostname, sDot)),
                              HomeDomainOf(c))))

OwnedBy(rrs, name) == \A j \in 1..Len(rrs) : rrs[j].Name = name

\* C17: every locally answered record is owned by the canonical form of the
\* host's full name, whatever form of the name the query used.
C17_OwnerIsCanonical ==
    (Len(req.Question) = 1 /\ HostAsked # 0) =>
        /\ HasHostCache(hc) =>
              /\ OwnedBy(LookupRecords(hc, TheQuestion.Name, "A"), CanonicalOf(cfg, HostAsked))
              /\ OwnedBy(LookupRecords(hc, TheQuestion.Name, "AAAA"), CanonicalOf(cfg, HostAsked))
        /\ ServedLocally => OwnedBy(TheAnswers, CanonicalOf(cfg, HostAsked))

\* the 32-bit field t, held as two 16-bit halves, has the value of the
\* integer n
HasValue(t, n) == t = <<n \div 65536, n % 65536>>

TtlIs(rrs, n) == \A j \in 1..Len(rrs) : HasValue(rrs[j].Ttl, n)

\* C18: every locally answered record carries a TTL equal to dns.ttl of the
\* installed configuration, for every dns.ttl that Validate accepts.
C18_TtlIsConfigured ==
    (Len(req.Question) = 1 /\ HostAsked # 0) =>
        /\ HasHostCache(hc) =>
              /\ TtlIs(LookupRecords(hc, TheQuestion.Name, "A"), cfg.DNS.TTL)
              /\ TtlIs(LookupRecords(hc, TheQuestion.Name, "AAAA"), cfg.DNS.TTL)
        /\ ServedLocally => TtlIs(TheAnswers, cfg.DNS.TTL)

\* the labels of a name: the pieces between its dots
RECURSIVE LabelsFrom(_, _, _)
LabelsFrom(name, i, label) ==
    IF i > Len(name) THEN <<label>>
    ELSE IF name[i] = "." THEN <<label>> \o LabelsFrom(name, i + 1, <<>>)
    ELSE LabelsFrom(name, i + 1, Append(label, name[i]))

Labels(name) == LabelsFrom(name, 1, <<>>)

\* the name without one trailing dot, in lower case
Normalized(name) == ToLower(IF Len(name) > 0 /\ name[Len(name)] = "."
                            THEN SubSeq(name, 1, Len(name) - 1) ELSE name)

\* name is the domain p or a subdomain of it: the labels of p are the last
\* labels of name
InDomain(name, p) ==
    LET ls == Labels(Normalized(name))
        lp == Labels(p)
    IN  /\ Len(ls) >= Len(lp)
        /\ SubSeq(ls, Len(ls) - Len(lp) + 1, Len(ls)) = lp

\* C19: IsBlocked(name) is true iff name, lowercased and without one trailing
\* dot, is a block-list pattern p or ends in "." + p: p, x.p and y.x.p are
\* blocked, with or without trailing dot; a name that only ends with the
\* characters of p, a name that p is a prefix of, and the empty name are not.
C19_IsBlockedIsSuffixMatch ==
    call.op = "IsBlocked" =>
        /\ call.out = (\E i \in 1..Len(cfg.DNS.BlockList) : InDomain(call.name, cfg.DNS.BlockList[i]))
        /\ \A i \in 1..Len(cfg.DNS.BlockList) :
              LET p == cfg.DNS.BlockList[i] IN
              call.name \in {p, p \o sDot, ToUpper(p), sSub \o sDot \o p,
                             sX \o sDot \o sSub \o sDot \o p \o sDot,
                             sX \o sDot \o sSub \o sDot \o ToUpper(p) \o sDot} => call.out
        /\ (cfg.DNS.BlockList = <<nEvilCom>>
             /\ call.name \in {sNot \o nEvilCom, nEvilCom \o sNot, <<>>, sCom, nNasLab}) => ~call.out

C19_Witness ==
    /\ call.op = "IsBlocked"
    /\ cfg.DNS.BlockList = <<nXOrg, nEvilCom>>
    /\ call.name = sX \o sDot \o sSub \o sDot \o ToUpper(nEvilCom) \o sDot
    /\ call.out

\* C20: every response that ServeDNS writes is a reply with the authoritative
\* bit set and the id of the request it answers, whether its answers are
\* local, forwarded, for a blocked name, or none.
C20_AuthoritativeWithRequestId ==
    \A w \in 1..Len(written) :
        /\ written[w].msg.Authoritative
        /\ written[w].msg.Response
        /\ written[w].msg.Id = req.Id
        /\ req.Id = RequestId

C20_Witness ==
    /\ pc = "done"
    /\ Len(req.Question) = 2
    /\ BlockedQ(1)
    /\ AcceptedFor(1) # {}
    /\ Len(LocalOf(2)) > 0
    /\ written[1].msg.Authoritative
    /\ written[1].msg.Id = RequestId
    /\ Len(written[1].msg.Answer) = 2 + Len(LocalOf(2))

\* C21: in every response that ServeDNS writes the recursion-available flag
\* equals dns.enable_recursion.
C21_RecursionAvailableFlag ==
    \A w \in 1..Len(written) :
        written[w].msg.RecursionAvailable = cfg.DNS.EnableRecursion


\* ------------------------------------------------------------------------
\* HostCache.Rebuild running concurrently with the readers of the index
\* ------------------------------------------------------------------------
\* the number of Rebuild calls made after NewHostCache
MaxRebuilds == 2

RebuildConfigs ==
    {MkConfig(<<hNas>>, sHome, DefaultTTL, FALSE, <<>>, <<>>),
     MkConfig(<<hNas>>, sHome, 600, FALSE, <<>>, <<>>),
     MkConfig(<<hNasLab, hV6>>, sHome, DefaultTTL, FALSE, <<>>, <<>>),
     MkConfig(<<hNas, hNasLab>>, sHome, DefaultTTL, FALSE, <<>>, <<>>)}

\* the hostnames the readers ask for
ReadNames == {sNas, nNasLab}

\* the calls a reader makes: Lookup (ResolveLocal) and LookupRecords
\* (ResolveFast)
ReadCalls ==
    {[op |-> "Lookup", name |-> n, qtype |-> ""] : n \in ReadNames}
    \cup {[op |-> "LookupRecords", name |-> n, qtype |-> t] :
             n \in ReadNames, t \in {"A", "AAAA"}}

handlerVars == <<pc, req, resp, qi, ui, queries, reply, written>>

InitRebuild ==
    /\ cfg \in RebuildConfigs
    /\ hc = NewHostCache(cfg)
    /\ pc = "idle"
    /\ req = NoRequest
    /\ resp = NoResponse
    /\ qi = 0
    /\ ui = 0
    /\ queries = <<>>
    /\ reply = NoReply
    /\ written = <<>>
    /\ call = NoCall
    /\ AuxInit

\* a goroutine calls hc.Rebuild(c)
CallRebuild(c) ==
    /\ rb.pc = "idle"
    /\ rb.n < MaxRebuilds
    /\ rb' = [rb EXCEPT !.pc = "lock", !.cfg = c, !.i = 0, !.j = 0]
    /\ UNCHANGED <<cfg, hc, handlerVars, call, mutex, rd, clients, srv>>

\* variant: Rebuild goes on without exclusive access to the tables
RebuildLockNotExclusive ==
    /\ rb.pc = "lock"
    /\ rb' = [rb EXCEPT !.pc = "clearHosts"]
    /\ UNCHANGED <<cfg, hc, handlerVars, call, mutex, rd, clients, srv>>

\* hc.mutex.Lock(): waits until no reader and no writer holds the mutex
RebuildLock ==
    /\ rb.pc = "lock"
    /\ ~mutex.writer
    /\ mutex.readers = 0
    /\ mutex' = [mutex EXCEPT !.writer = TRUE]
    /\ rb' = [rb EXCEPT !.pc = "clearHosts"]
    /\ UNCHANGED <<cfg, hc, handlerVars, call, rd, clients, srv>>

\* variant: the hosts table is filled without being cleared first
RebuildKeepHosts ==
    /\ rb.pc = "clearHosts"
    /\ rb' = [rb EXCEPT !.pc = "clearRecords"]
    /\ UNCHANGED <<cfg, hc, handlerVars, call, mutex, rd, clients, srv>>

\* hc.hosts = make(map[string]*config.HostEntry)
RebuildClearHosts ==
    /\ rb.pc = "clearHosts"
    /\ hc' = [hc EXCEPT !.hosts = EmptyMap]
    /\ rb' = [rb EXCEPT !.pc = "clearRecords"]
    /\ UNCHANGED <<cfg, handlerVars, call, mutex, rd, clients, srv>>

\* hc.records = make(map[string][]dns.RR), and the loop over cfg.Hosts begins
RebuildClearRecords ==
    /\ rb.pc = "clearRecords"
    /\ hc' = [hc EXCEPT !.records = EmptyMap]
    /\ rb' = [rb EXCEPT !.pc = IF Len(rb.cfg.Hosts) = 0 THEN "unlock" ELSE "host",
                        !.i = 1]
    /\ UNCHANGED <<cfg, handlerVars, call, mutex, rd, clients, srv>>

\* normalizedName of a configured host (Rebuild)
NormalizedName(host) == ToLower(TrimSuffix(host.Hostname, sDot))

\* one round of the loop of Rebuild up to the call of buildRecords: the four
\* spellings of host i are stored
RebuildHost ==
    /\ rb.pc = "host"
    /\ LET host == rb.cfg.Hosts[rb.i]
           normalizedName == NormalizedName(host)
           fullHostname == FullHostname(normalizedName, HomeDomainOf(rb.cfg))
           h1 == MapPut(hc.hosts, normalizedName, rb.i)
           h2 == MapPut(h1, normalizedName \o sDot, rb.i)
           h3 == MapPut(h2, fullHostname, rb.i)
       IN  hc' = [hc EXCEPT !.hosts = MapPut(h3, fullHostname \o sDot, rb.i)]
    /\ rb' = [rb EXCEPT !.pc = "A", !.j = 1]
    /\ UNCHANGED <<cfg, handlerVars, call, mutex, rd, clients, srv>>

\* one round of the first loop of buildRecords, or its end
RebuildA ==
    /\ rb.pc = "A"
    /\ LET host == rb.cfg.Hosts[rb.i]
           normalizedName == NormalizedName(host)
           fullHostname == FullHostname(normalizedName, HomeDomainOf(rb.cfg))
       IN  IF rb.j > Len(host.IPv4)
           THEN /\ rb' = [rb EXCEPT !.pc = "AAAA", !.j = 1]
                /\ hc' = hc
           ELSE /\ rb' = [rb EXCEPT !.j = @ + 1]
                /\ hc' = [hc EXCEPT !.records =
                            IF ParseIP(host.IPv4[rb.j]) = "nil" THEN @
                            ELSE AppendBoth(@, normalizedName, fullHostname,
                                            <<":">> \o sTypeA,
                                            RRA(fullHostname, host.IPv4[rb.j],
                                                rb.cfg.DNS.TTL))]
    /\ UNCHANGED <<cfg, handlerVars, call, mutex, rd, clients, srv>>

\* one round of the second loop of buildRecords, or its end and the next
\* round of the loop of Rebuild
RebuildAAAA ==
    /\ rb.pc = "AAAA"
    /\ LET host == rb.cfg.Hosts[rb.i]
           normalizedName == NormalizedName(host)
           fullHostname == FullHostname(normalizedName, HomeDomainOf(rb.cfg))
       IN  IF rb.j > Len(host.IPv6)
           THEN /\ rb' = [rb EXCEPT !.pc = IF rb.i + 1 > Len(rb.cfg.Hosts)
                                           THEN "unlock" ELSE "host",
                                    !.i = @ + 1, !.j = 0]
                /\ hc' = hc
           ELSE /\ rb' = [rb EXCEPT !.j = @ + 1]
                /\ hc' = [hc EXCEPT !.records =
                            IF ParseIP(host.IPv6[rb.j]) = "nil" THEN @
                            ELSE AppendBoth(@, normalizedName, fullHostname,
                                            <<":">> \o sTypeAAAA,
                                            RRAAAA(fullHostname, host.IPv6[rb.j],
                                                   rb.cfg.DNS.TTL))]
    /\ UNCHANGED <<cfg, handlerVars, call, mutex, rd, clients, srv>>

\* the deferred hc.mutex.Unlock(): Rebuild returns and its argument is the
\* installed configuration
RebuildUnlock ==
    /\ rb.pc = "unlock"
    /\ mutex' = [mutex EXCEPT !.writer = FALSE]
    /\ cfg' = rb.cfg
    /\ rb' = [NoRebuild EXCEPT !.n = rb.n + 1, !.prev = cfg]
    /\ UNCHANGED <<hc, handlerVars, call, rd, clients, srv>>

\* the configuration whose hosts the entries of hc.hosts point into
TableConfig ==
    IF rb.pc \in {"host", "A", "AAAA", "unlock"} THEN rb.cfg ELSE cfg

NoHost == [Hostname |-> <<>>, IPv4 |-> <<>>, IPv6 |-> <<>>]

\* *host of the pointer that Lookup returns
HostAt(c, i) == IF i \in 1..Len(c.Hosts) THEN c.Hosts[i] ELSE NoHost

\* what a call returns on the tables cache that point into configuration c
ReadResult(cache, c, k) ==
    IF k.op = "Lookup"
    THEN [found |-> Lookup(cache, k.name) # 0, host |-> HostAt(c, Lookup(cache, k.name))]
    ELSE LookupRecords(cache, k.name, k.qtype)

\* hc.mutex.RLock() of Lookup and of LookupRecords: waits while a writer holds
\* the mutex
ReadLock(r, k) ==
    /\ rd[r].pc = "idle"
    /\ ~mutex.writer
    /\ mutex' = [mutex EXCEPT !.readers = @ + 1]
    /\ rd' = [rd EXCEPT ![r] = [pc |-> "locked", op |-> k.op, name |-> k.name,
                                qtype |-> k.qtype, out |-> <<>>]]
    /\ UNCHANGED <<cfg, hc, handlerVars, call, rb, clients, srv>>

\* variant: the reader writes the name it asked for into the records it found
ReadTableStampOwner(r) ==
    /\ rd[r].pc = "locked"
    /\ rd' = [rd EXCEPT ![r].pc = "read", ![r].out = ReadResult(hc, TableConfig, rd[r])]
    /\ hc' = [hc EXCEPT !.records =
                [key \in DOMAIN @ |->
                    [x \in 1..Len(@[key]) |->
                        IF @[key][x] \in Range(LookupRecords(hc, rd[r].name, "A"))
                        THEN [@[key][x] EXCEPT !.Name = Fqdn(rd[r].name)]
                        ELSE @[key][x]]]]
    /\ UNCHANGED <<cfg, handlerVars, call, mutex, rb, clients, srv>>

\* the body of Lookup and of LookupRecords: the table is read
ReadTable(r) ==
    /\ rd[r].pc = "locked"
    /\ rd' = [rd EXCEPT ![r].pc = "read", ![r].out = ReadResult(hc, TableConfig, rd[r])]
    /\ UNCHANGED <<cfg, hc, handlerVars, call, mutex, rb, clients, srv>>

\* the deferred hc.mutex.RUnlock(): the call returns
ReadUnlock(r) ==
    /\ rd[r].pc = "read"
    /\ mutex' = [mutex EXCEPT !.readers = @ - 1]
    /\ rd' = [rd EXCEPT ![r] = NoRead]
    /\ UNCHANGED <<cfg, hc, handlerVars, call, rb, clients, srv>>

\* Resolver.GetAllHosts: the configured hosts, read without the mutex
CallGetAllHosts(r) ==
    /\ rd[r].pc = "idle"
    /\ rd' = [rd EXCEPT ![r] = [pc |-> "got", op |-> "GetAllHosts", name |-> <<>>,
                                qtype |-> "", out |-> cfg.Hosts]]
    /\ UNCHANGED <<cfg, hc, handlerVars, call, mutex, rb, clients, srv>>

\* the caller of GetAllHosts is done with the hosts
ReadReturn(r) ==
    /\ rd[r].pc = "got"
    /\ rd' = [rd EXCEPT ![r] = NoRead]
    /\ UNCHANGED <<cfg, hc, handlerVars, call, mutex, rb, clients, srv>>

NextRebuild ==
    \/ \E c \in RebuildConfigs : CallRebuild(c)
    \/ RebuildLock
    \/ RebuildClearHosts
    \/ RebuildClearRecords
    \/ RebuildHost
    \/ RebuildA
    \/ RebuildAAAA
    \/ RebuildUnlock
    \/ \E r \in Readers, k \in ReadCalls : ReadLock(r, k)
    \/ \E r \in Readers : ReadTable(r)
    \/ \E r \in Readers : ReadUnlock(r)
    \/ \E r \in Readers : CallGetAllHosts(r)
    \/ \E r \in Readers : ReadReturn(r)

RebuildSpec == InitRebuild /\ [][NextRebuild]_vars

\* what call k returns once configuration c is installed
ResultFor(c, k) == ReadResult(Rebuild(c), c, k)

\* the configuration a Rebuild under way installs, the installed one otherwise
ConfigNew == IF rb.pc = "idle" THEN cfg ELSE rb.cfg

\* C22: a Lookup or LookupRecords that runs concurrently with Rebuild(cfgNew)
\* returns the result for the installed configuration or the result for
\* cfgNew, never one read from a cleared or partially built table.
C22_RebuildAtomicForReaders ==
    [][\A r \in Readers :
          (rd[r].pc = "locked" /\ rd'[r].pc = "read")
              => rd'[r].out \in {ResultFor(cfg, rd[r]), ResultFor(ConfigNew, rd[r])}]_vars

\* a reader holds a result inside its read lock while a second Rebuild, whose
\* configuration answers the same call differently, waits for the mutex
C22_Witness ==
    \E r \in Readers :
        /\ rd[r].pc = "read"
        /\ rb.pc = "lock"
        /\ rb.n >= 1
        /\ rd[r].out # <<>>
        /\ ResultFor(cfg, rd[r]) # ResultFor(rb.cfg, rd[r])

C23_WitnessRepeated ==
    /\ rb.pc = "idle"
    /\ rb.n >= 1
    /\ rb.prev = cfg
    /\ Len(cfg.Hosts) > 0

\* a step of a reader of the index
ReaderStep == rd' # rd

\* C24: no Lookup, LookupRecords or GetAllHosts changes a record of the index
\* or a configured host, and identical lookups that hold the read lock at the
\* same time have identical results.
C24_ReadersLeaveIndexAlone ==
    /\ [](\A r1, r2 \in Readers :
             (/\ rd[r1].pc = "read"
              /\ rd[r2].pc = "read"
              /\ rd[r1].op = rd[r2].op
              /\ rd[r1].name = rd[r2].name
              /\ rd[r1].qtype = rd[r2].qtype) => rd[r1].out = rd[r2].out)
    /\ [][ReaderStep => (hc' = hc /\ cfg' = cfg)]_vars

\* two readers hold the same two address records after a Rebuild
C24_Witness ==
    /\ rb.n >= 1
    /\ \A r \in Readers :
          /\ rd[r].pc = "read"
          /\ rd[r].op = "LookupRecords"
          /\ rd[r].name = sNas
          /\ rd[r].qtype = "A"
          /\ Len(rd[r].out) = 2


\* ------------------------------------------------------------------------
\* SecureClient (the pooled client; internal/dns/secureclient.go is the
\* client without the pool)
\* ------------------------------------------------------------------------
sTLS12 == "VersionTLS12"

\* a dns.Client without TLSConfig
NilTLSConfig == [nil |-> TRUE]

\* NewSecureClient: httpClient.Transport.TLSClientConfig
HttpTLSConfig == [ServerName |-> "", InsecureSkipVerify |-> FALSE, MinVersion |-> sTLS12]

\* the upstreams Query and getOrCreateClient are called with
PoolProtocols == {"udp", "tcp", "tls", "https", "quic", "invalid"}

PoolUpstreams ==
    {[Address |-> a, Protocol |-> p,
      Port |-> CASE p = "tls" -> 853 [] p = "https" -> 443 [] p = "quic" -> 853 [] OTHER -> 53,
      Path |-> IF p = "https" THEN "/dns-query" ELSE "",
      Verify |-> v] :
        a \in {"1.1.1.1", "9.9.9.9"}, p \in PoolProtocols, v \in BOOLEAN}

\* getOrCreateClient: the key of the pool
ClientKey(upstream) == <<upstream.Protocol, upstream.Address, upstream.Port>>

\* getOrCreateClient: the client created for an upstream
NewClient(upstream) ==
    CASE upstream.Protocol \in {"udp", "tcp"} ->
             [Net |-> upstream.Protocol, Timeout |-> 3, TLSConfig |-> NilTLSConfig]
      [] upstream.Protocol = "tls" ->
             [Net |-> "tcp-tls", Timeout |-> 5,
              TLSConfig |-> [ServerName |-> upstream.Address,
                             InsecureSkipVerify |-> ~upstream.Verify,
                             MinVersion |-> sTLS12]]
      [] OTHER -> [Net |-> "udp", Timeout |-> 3, TLSConfig |-> NilTLSConfig]

\* SecureClient.getOrCreateClient: the pool afterwards and the client returned
getOrCreateClient(pool, upstream) ==
    IF ClientKey(upstream) \in DOMAIN pool
    THEN [clients |-> pool, client |-> pool[ClientKey(upstream)]]
    ELSE [clients |-> MapPut(pool, ClientKey(upstream), NewClient(upstream)),
          client |-> NewClient(upstream)]

\* SecureClient.Query up to the exchange: the pool afterwards and the exchange
\* that is made (queryTraditional, queryDoT, queryDoH), or the error
Query(pool, upstream) ==
    CASE upstream.Protocol \in {"udp", "tcp", "tls"} ->
             [clients |-> getOrCreateClient(pool, upstream).clients,
              out |-> [kind |-> "exchange",
                       client |-> getOrCreateClient(pool, upstream).client,
                       addr |-> <<upstream.Address, upstream.Port>>]]
      [] upstream.Protocol = "https" ->
             [clients |-> pool,
              out |-> [kind |-> "http", tls |-> HttpTLSConfig,
                       url |-> <<"https", upstream.Address, upstream.Port, upstream.Path>>]]
      [] upstream.Protocol = "quic" ->
             [clients |-> pool, out |-> [kind |-> "err", err |-> "not yet implemented"]]
      [] OTHER ->
             [clients |-> pool, out |-> [kind |-> "err", err |-> "unsupported protocol"]]

InitClient ==
    /\ cfg \in {MkConfig(<<>>, sHome, DefaultTTL, TRUE, <<>>, <<>>)}
    /\ hc = NewHostCache(cfg)
    /\ pc = "idle"
    /\ req = NoRequest
    /\ resp = NoResponse
    /\ qi = 0
    /\ ui = 0
    /\ queries = <<>>
    /\ reply = NoReply
    /\ written = <<>>
    /\ call = NoCall
    /\ AuxInit

\* sc.Query(msg, upstream)
CallQuery(upstream) ==
    /\ clients' = Query(clients, upstream).clients
    /\ call' = [op |-> "Query", upstream |-> upstream, out |-> Query(clients, upstream).out]
    /\ UNCHANGED <<cfg, hc, handlerVars, mutex, rb, rd, srv>>

\* sc.getOrCreateClient(upstream), called directly
CallGetOrCreateClient(upstream) ==
    /\ upstream.Protocol \in {"udp", "tls"}
    /\ clients' = getOrCreateClient(clients, upstream).clients
    /\ call' = [op |-> "getOrCreateClient", upstream |-> upstream,
                out |-> [kind |-> "client",
                         client |-> getOrCreateClient(clients, upstream).client]]
    /\ UNCHANGED <<cfg, hc, handlerVars, mutex, rb, rd, srv>>

NextClient ==
    \/ \E u \in PoolUpstreams : CallQuery(u)
    \/ \E u \in PoolUpstreams : CallGetOrCreateClient(u)

ClientSpec == InitClient /\ [][NextClient]_vars

\* the TLS configuration of the exchange that a Query made
TLSOf(out) ==
    CASE out.kind = "exchange" -> out.client.TLSConfig
      [] out.kind = "http" -> out.tls
      [] OTHER -> NilTLSConfig

\* C25: whatever was called before, the client that Query uses for a tls
\* upstream validates the certificate iff the upstream's verify is true, has
\* the upstream's address as server name and TLS 1.2 as minimum version.
C25_TlsClientFollowsVerify ==
    (call.op = "Query" /\ call.upstream.Protocol = "tls") =>
        /\ call.out.kind = "exchange"
        /\ TLSOf(call.out) = [ServerName |-> call.upstream.Address,
                              InsecureSkipVerify |-> ~call.upstream.Verify,
                              MinVersion |-> sTLS12]

\* C26: a DoH exchange validates the certificate iff the upstream's verify is
\* true; the client of a udp or tcp upstream is the same whatever verify is.
C26_VerifyControlsHttps ==
    call.op = "Query" =>
        /\ call.upstream.Protocol = "https" =>
              /\ call.out.kind = "http"
              /\ TLSOf(call.out).InsecureSkipVerify = ~call.upstream.Verify
        /\ call.upstream.Protocol \in {"udp", "tcp"} =>
              /\ call.out.kind = "exchange"
              /\ call.out.client = NewClient([call.upstream EXCEPT !.Verify = ~@])


\* ------------------------------------------------------------------------
\* Config.Validate and DefaultConfig (internal/config/config.go)
\* ------------------------------------------------------------------------
NilError == "nil"

\* a configuration with the fields that Validate reads
MkFullConfig(server, hosts, home, ups, level) ==
    [Server |-> server, Hosts |-> hosts, HomeDNSDomain |-> home,
     DNS |-> [TTL |-> DefaultTTL, EnableRecursion |-> TRUE, BlockList |-> <<>>],
     Upstream |-> ups, LogLevel |-> level]

\* DefaultConfig: it sets no home domain
DefaultConfig ==
    MkFullConfig([Port |-> 53, Address |-> "0.0.0.0"], <<>>, <<>>,
                 <<[Address |-> "1.1.1.1", Protocol |-> "https", Port |-> 0,
                    Path |-> "/dns-query", Verify |-> TRUE],
                   [Address |-> "8.8.8.8", Protocol |-> "tls", Port |-> 853,
                    Path |-> "", Verify |-> TRUE]>>,
                 "info")

ValidProtocols == {"udp", "tcp", "tls", "https", "quic"}

ValidLevels == {"debug", "info", "warn", "error"}

\* variant: every omitted port becomes the DNS port
DefaultPortDns(protocol) == IF protocol \in ValidProtocols THEN 53 ELSE 0

\* Validate: the port of an upstream that names none
DefaultPort(protocol) ==
    CASE protocol \in {"udp", "tcp"} -> 53
      [] protocol = "tls" -> 853
      [] protocol = "https" -> 443
      [] protocol = "quic" -> 853
      [] OTHER -> 0

\* one round of Validate's loop over the upstreams: the error, and the
\* upstream as the round leaves it
ValidateUpstream(upstream) ==
    IF upstream.Address = ""
    THEN [err |-> "address cannot be empty", upstream |-> upstream]
    ELSE IF upstream.Protocol \notin ValidProtocols
    THEN [err |-> "invalid protocol", upstream |-> upstream]
    ELSE [err |-> NilError,
          upstream |-> [upstream EXCEPT
                          !.Port = IF @ = 0 THEN DefaultPort(upstream.Protocol) ELSE @,
                          !.Path = IF upstream.Protocol = "https" /\ @ = ""
                                   THEN "/dns-query" ELSE @]]

\* Validate's loop over the upstreams from index i on: it writes the defaults
\* in place and stops at the first error
RECURSIVE ValidateUpstreams(_, _)
ValidateUpstreams(ups, i) ==
    IF i > Len(ups) THEN [err |-> NilError, ups |-> ups]
    ELSE IF ValidateUpstream(ups[i]).err # NilError
    THEN [err |-> ValidateUpstream(ups[i]).err, ups |-> ups]
    ELSE ValidateUpstreams([ups EXCEPT ![i] = ValidateUpstream(ups[i]).upstream], i + 1)

\* variant: a host without addresses is accepted
ValidateHostAllowsNoAddress(host) ==
    IF host.Hostname = <<>> THEN "hostname cannot be empty"
    ELSE IF \E k \in 1..Len(host.IPv4) : ParseIP(host.IPv4[k]) = "nil"
    THEN "invalid IPv4 address"
    ELSE IF \E k \in 1..Len(host.IPv6) : ParseIP(host.IPv6[k]) = "nil"
    THEN "invalid IPv6 address"
    ELSE NilError

\* one round of Validate's loop over the hosts: the error
ValidateHost(host) ==
    IF host.Hostname = <<>> THEN "hostname cannot be empty"
    ELSE IF \E k \in 1..Len(host.IPv4) : ParseIP(host.IPv4[k]) = "nil"
    THEN "invalid IPv4 address"
    ELSE IF \E k \in 1..Len(host.IPv6) : ParseIP(host.IPv6[k]) = "nil"
    THEN "invalid IPv6 address"
    ELSE IF Len(host.IPv4) = 0 /\ Len(host.IPv6) = 0
    THEN "must have at least one IP address"
    ELSE NilError

\* Validate's loop over the hosts from index i on: the first error
RECURSIVE ValidateHosts(_, _)
ValidateHosts(hosts, i) ==
    IF i > Len(hosts) THEN NilError
    ELSE IF ValidateHost(hosts[i]) # NilError THEN ValidateHost(hosts[i])
    ELSE ValidateHosts(hosts, i + 1)

\* Config.Validate: the error returned and the configuration as it is left
Validate(c) ==
    IF c.Server.Port < 1 \/ c.Server.Port > 65535
    THEN [err |-> "invalid port", cfg |-> c]
    ELSE IF ParseIP(c.Server.Address) = "nil" /\ c.Server.Address # "0.0.0.0"
    THEN [err |-> "invalid server address", cfg |-> c]
    ELSE
      LET u == ValidateUpstreams(c.Upstream, 1)
          c1 == [c EXCEPT !.Upstream = u.ups]
      IN  IF u.err # NilError THEN [err |-> u.err, cfg |-> c1]
          ELSE IF ValidateHosts(c.Hosts, 1) # NilError
          THEN [err |-> ValidateHosts(c.Hosts, 1), cfg |-> c1]
          ELSE IF c.LogLevel \notin ValidLevels
          THEN [err |-> "invalid log level", cfg |-> c1]
          ELSE [err |-> NilError, cfg |-> c1]

\* the configurations Validate is called on
ValidateServers ==
    {[Port |-> 8053, Address |-> "127.0.0.1"], [Port |-> 0, Address |-> "127.0.0.1"],
     [Port |-> 65536, Address |-> "127.0.0.1"], [Port |-> 65535, Address |-> "0.0.0.0"],
     [Port |-> 53, Address |-> "localhost"], [Port |-> 1, Address |-> ""]}

ValidateUpstreamPool ==
    {[Address |-> a, Protocol |-> p, Port |-> n, Path |-> x, Verify |-> TRUE] :
        a \in {"1.1.1.1", ""}, p \in ValidProtocols \cup {"invalid"},
        n \in {0, 5353}, x \in {"", "/custom"}}

ValidateUpstreamLists ==
    {<<>>}
    \cup {<<u>> : u \in ValidateUpstreamPool}
    \cup {<<[Address |-> "8.8.8.8", Protocol |-> p, Port |-> 0, Path |-> "",
             Verify |-> TRUE], u>> :
             p \in {"udp", "https"}, u \in ValidateUpstreamPool}
    \cup {[k \in 1..4 |->
             [Address |-> "9.9.9.9", Protocol |-> <<"udp", "tcp", "tls", "https">>[k],
              Port |-> 0, Path |-> "", Verify |-> TRUE]]}

hNoName == [Hostname |-> <<>>, IPv4 |-> <<"192.168.1.20">>, IPv6 |-> <<>>]
hBadIPv4 == [Hostname |-> sNas, IPv4 |-> <<"192.168.1.101", "not-an-ip">>, IPv6 |-> <<>>]
hBadIPv6 == [Hostname |-> sV6, IPv4 |-> <<>>, IPv6 |-> <<"not-an-ipv6">>]
hNoAddress == [Hostname |-> sNas, IPv4 |-> <<>>, IPv6 |-> <<>>]

ValidateHostLists ==
    {<<>>, <<hNas>>, <<hNasLab, hV6>>, <<hMix>>, <<hNoName>>, <<hNas, hBadIPv4>>,
     <<hBadIPv6>>, <<hNasLab, hNoAddress>>}

ValidateLevels == {"info", "error", "verbose", ""}

ValidateConfigs ==
    {MkFullConfig(sv, h, d, u, l) :
        sv \in ValidateServers, h \in ValidateHostLists, d \in {sHome, <<>>},
        u \in ValidateUpstreamLists, l \in ValidateLevels}
    \cup {DefaultConfig}

InitValidate ==
    /\ cfg \in ValidateConfigs
    /\ hc = NoHostCache
    /\ pc = "idle"
    /\ req = NoRequest
    /\ resp = NoResponse
    /\ qi = 0
    /\ ui = 0
    /\ queries = <<>>
    /\ reply = NoReply
    /\ written = <<>>
    /\ call = NoCall
    /\ AuxInit

\* cfg.Validate()
CallValidate ==
    /\ cfg' = Validate(cfg).cfg
    /\ call' = [op |-> "Validate", before |-> cfg, out |-> Validate(cfg).err]
    /\ UNCHANGED <<hc, handlerVars, aux>>

NextValidate == CallValidate

ValidateSpec == InitValidate /\ [][NextValidate]_vars

\* the protocols the specification lists
ServedProtocols == {"udp", "tcp", "tls", "https"}

\* C27: when Validate returns nil every upstream has one of the protocols
\* udp, tcp, tls, https, and Query can serve it.
C27_ValidatedProtocolIsServed ==
    (call.op = "Validate" /\ call.out = NilError) =>
        \A i \in 1..Len(cfg.Upstream) :
            /\ cfg.Upstream[i].Protocol \in ServedProtocols
            /\ Query(NoClients, cfg.Upstream[i]).out.kind # "err"

\* the upstreams before and after the last Validate
UpstreamBefore(i) == call.before.Upstream[i]

UpstreamAfter(i) == cfg.Upstream[i]

\* C28: when Validate returns nil an upstream whose port was 0 has port 53
\* (udp, tcp), 853 (tls) or 443 (https), an https upstream whose path was
\* empty has path /dns-query, and configured ports and paths and the paths of
\* the other protocols are as they were.
C28_UpstreamDefaults ==
    (call.op = "Validate" /\ call.out = NilError) =>
        /\ Len(cfg.Upstream) = Len(call.before.Upstream)
        /\ \A i \in 1..Len(cfg.Upstream) :
            /\ (UpstreamBefore(i).Port = 0 /\ UpstreamBefore(i).Protocol \in {"udp", "tcp"})
                  => UpstreamAfter(i).Port = 53
            /\ (UpstreamBefore(i).Port = 0 /\ UpstreamBefore(i).Protocol = "tls")
                  => UpstreamAfter(i).Port = 853
            /\ (UpstreamBefore(i).Port = 0 /\ UpstreamBefore(i).Protocol = "https")
                  => UpstreamAfter(i).Port = 443
            /\ UpstreamBefore(i).Port # 0 => UpstreamAfter(i).Port = UpstreamBefore(i).Port
            /\ (UpstreamBefore(i).Protocol = "https" /\ UpstreamBefore(i).Path = "")
                  => UpstreamAfter(i).Path = "/dns-query"
            /\ (UpstreamBefore(i).Protocol # "https" \/ UpstreamBefore(i).Path # "")
                  => UpstreamAfter(i).Path = UpstreamBefore(i).Path
            /\ UpstreamAfter(i).Protocol = UpstreamBefore(i).Protocol
            /\ UpstreamAfter(i).Address = UpstreamBefore(i).Address

\* Validate has accepted upstreams of the four protocols that named no port
\* and no path
C28_Witness ==
    /\ call.op = "Validate"
    /\ call.out = NilError
    /\ \A p \in ServedProtocols :
          \E i \in 1..Len(cfg.Upstream) :
              /\ UpstreamBefore(i).Protocol = p
              /\ UpstreamBefore(i).Port = 0
              /\ UpstreamBefore(i).Path = ""
              /\ UpstreamAfter(i).Port = DefaultPort(p)

\* Validate has accepted an upstream with a port and a path of its own next
\* to one without
C28_WitnessConfigured ==
    /\ call.op = "Validate"
    /\ call.out = NilError
    /\ \E i, j \in 1..Len(cfg.Upstream) :
          /\ UpstreamBefore(i).Port = 0
          /\ UpstreamBefore(j).Port = 5353
          /\ UpstreamBefore(j).Path = "/custom"

\* the defects that the claim lists
Defective(c) ==
    \/ c.Server.Port < 1 \/ c.Server.Port > 65535
    \/ ParseIP(c.Server.Address) = "nil"
    \/ \E i \in 1..Len(c.Upstream) : c.Upstream[i].Address = ""
    \/ \E i \in 1..Len(c.Hosts) :
          \/ c.Hosts[i].Hostname = <<>>
          \/ \E k \in 1..Len(c.Hosts[i].IPv4) : ParseIP(c.Hosts[i].IPv4[k]) = "nil"
          \/ \E k \in 1..Len(c.Hosts[i].IPv6) : ParseIP(c.Hosts[i].IPv6[k]) = "nil"
          \/ (Len(c.Hosts[i].IPv4) = 0 /\ Len(c.Hosts[i].IPv6) = 0)
    \/ c.LogLevel \notin {"debug", "info", "warn", "error"}

C29_WitnessError ==
    /\ call.op = "Validate"
    /\ call.out = "must have at least one IP address"
    /\ Len(call.before.Upstream) > 0

\* C30: Validate returns an error for a configuration whose home_dns_domain is
\* empty; DefaultConfig has the home domain home and Validate accepts it.
C30_HomeDomainRequired ==
    /\ (call.op = "Validate" /\ call.before.HomeDNSDomain = <<>>) => call.out # NilError
    /\ DefaultConfig.HomeDNSDomain = sHome
    /\ Validate(DefaultConfig).err = NilError


\* C40: a Validate that returns an error leaves the configuration as it was,
\* and a Validate of a configuration that has passed returns nil and changes
\* nothing.
C40_FailedValidateChangesNothing ==
    call.op = "Validate" =>
        /\ call.out # NilError => cfg = call.before
        /\ call.out = NilError =>
              (Validate(cfg).err = NilError /\ Validate(cfg).cfg = cfg)

\* what question k is to add to the answer section: nothing when it is
\* blocked, else its local answers or those of the upstream that answered
ExpectedOf(k) == IF BlockedQ(k) THEN <<>> ELSE Contribution(k)

RECURSIVE ExpectedAnswers(_)
ExpectedAnswers(k) == IF k <= 0 THEN <<>> ELSE ExpectedAnswers(k - 1) \o ExpectedOf(k)

\* C35: the questions are processed in request order and the one response
\* holds the answers of every question, concatenated in question order; what
\* happens to one question leaves the answers of the others as they are.
C35_AnswersInQuestionOrder ==
    /\ resp.Answer = ExpectedAnswers(qi - 1)
    /\ \A w \in 1..Len(written) :
          written[w].msg.Answer = ExpectedAnswers(Len(req.Question))
    /\ \A i \in 1..Len(queries) : i > 1 => queries[i - 1].q <= queries[i].q

\* the local step of the question loop, by what it does to the position of
\* ServeDNS: the next question or the write, or the upstream loop
QuestionStep ==
    /\ pc = "question"
    /\ \/ (qi' = qi + 1 /\ pc' = AfterQuestion(req, qi))
       \/ (qi' = qi /\ pc' = "forward")

\* the steps of ServeDNS in the upstream loop and at the write
ServeStep ==
    \/ ForwardUpstream
    \/ \E ok \in BOOLEAN : WriteResponse(ok)

\* the goroutine that serves a request keeps running: the local lookup
\* returns, and so does every upstream exchange and every write
FairSpec ==
    /\ InitFair
    /\ [][Next]_vars
    /\ WF_<<pc, qi>>(QuestionStep)
    /\ WF_vars(ServeStep)

\* C39: ServeDNS, once entered, writes its response and is done; each
\* upstream is queried at most once per question, so there are at most
\* |questions| * |upstream| Query calls, and for a question that an upstream
\* answered as many as the index of that upstream.
C39_TerminatesWithinBound ==
    /\ [](/\ Len(queries) <= Len(req.Question) * Len(cfg.Upstream)
          /\ \A i, j \in 1..Len(queries) :
                (i # j /\ queries[i].q = queries[j].q) => queries[i].u # queries[j].u
          /\ \A k \in 1..Len(req.Question) : \A i \in AcceptedFor(k) :
                Cardinality(QueriesFor(k)) = queries[i].u)
    /\ (pc # "idle") ~> (pc = "done")

\* a request with two questions is done after every upstream was asked for
\* both
C39_Witness ==
    /\ pc = "done"
    /\ Len(req.Question) = MaxQuestions
    /\ Len(cfg.Upstream) = MaxUpstreams
    /\ Len(queries) = MaxQuestions * MaxUpstreams


\* the A records of a host's ipv4 list, one per address, under its full name
RECURSIVE RecordsOfIPv4(_, _, _, _)
RecordsOfIPv4(fullHostname, ips, ttl, i) ==
    IF i > Len(ips) THEN <<>>
    ELSE <<RRA(fullHostname, ips[i], ttl)>> \o RecordsOfIPv4(fullHostname, ips, ttl, i + 1)

\* the A records of the i-th configured host
RecordsOfHost(c, i) ==
    LET normalizedName == ToLower(TrimSuffix(c.Hosts[i].Hostname, sDot)) IN
    RecordsOfIPv4(FullHostname(normalizedName, HomeDomainOf(c)), c.Hosts[i].IPv4, c.DNS.TTL, 1)

\* C38: in every index built by Rebuild from a configuration whose hosts pass
\* validation, the two tables agree on every name: Lookup finds a host exactly
\* when LookupRecords holds A or AAAA records, and the A records are the ones
\* of the ipv4 list of the host Lookup returns.
C38_TablesAgree ==
    ValidateHosts(cfg.Hosts, 1) = NilError =>
        \A n \in LookupNames :
            /\ (Lookup(hc, n) # 0) <=>
                   (\/ LookupRecords(hc, n, "A") # <<>>
                    \/ LookupRecords(hc, n, "AAAA") # <<>>)
            /\ Lookup(hc, n) # 0 =>
                   LookupRecords(hc, n, "A") = RecordsOfHost(cfg, Lookup(hc, n))

\* ------------------------------------------------------------------------
\* Resolver.AddHost, one call at a time (part_009, internal/dns/resolver.go)
\* ------------------------------------------------------------------------
\* the number of AddHost calls of one run
MaxAdds == 2

\* the hosts that are added
AddedHosts == {hNas, hNasLab, hV6, hNasUpper, hNasHome}

\* hosts[] of the configurations a Resolver is built over
AddHostLists == {<<>>, <<hNas>>, <<hNasLab, hV6>>}

\* Resolver.GetAllHosts
GetAllHosts(c) == c.Hosts

\* Resolver.AddHost: the host is appended to config.Hosts and, in the Resolver
\* that holds a HostCache, the index is rebuilt from the configuration
AddHost(c, cache, host) ==
    LET c2 == [c EXCEPT !.Hosts = Append(c.Hosts, host)] IN
    [cfg |-> c2, hc |-> IF HasHostCache(cache) THEN Rebuild(c2) ELSE cache]

\* a Resolver over each configuration; call.initial is the host list it was
\* built over and call.added the hosts added since
InitAddHost ==
    /\ cfg \in {MkConfig(h, sHome, DefaultTTL, FALSE, <<>>, <<>>) : h \in AddHostLists}
    /\ hc \in Resolvers(cfg)
    /\ call = [op |-> "NewResolver", initial |-> cfg.Hosts, added |-> <<>>, out |-> <<>>]
    /\ pc = "idle"
    /\ req = NoRequest
    /\ resp = NoResponse
    /\ qi = 0
    /\ ui = 0
    /\ queries = <<>>
    /\ reply = NoReply
    /\ written = <<>>
    /\ AuxInit

CallAddHost(host) ==
    /\ Len(call.added) < MaxAdds
    /\ cfg' = AddHost(cfg, hc, host).cfg
    /\ hc' = AddHost(cfg, hc, host).hc
    /\ call' = [call EXCEPT !.op = "AddHost", !.added = Append(@, host), !.out = <<>>]
    /\ UNCHANGED <<pc, req, resp, qi, ui, queries, reply, written>>
    /\ UNCHANGED aux

CallGetAllHostsAfterAdd ==
    /\ call' = [call EXCEPT !.op = "GetAllHosts", !.out = GetAllHosts(cfg)]
    /\ UNCHANGED <<cfg, hc, pc, req, resp, qi, ui, queries, reply, written>>
    /\ UNCHANGED aux

NextAddHost ==
    \/ \E host \in AddedHosts : CallAddHost(host)
    \/ CallGetAllHostsAfterAdd

AddHostSpec == InitAddHost /\ [][NextAddHost]_vars

\* C34: after any sequence of AddHost calls GetAllHosts is the initial hosts
\* followed by the added hosts in call order, every added host is found by
\* ResolveLocal, ResolveFast returns the records of every added host, and the
\* index is the one built from the host list.
C34_AddHostExtendsAndRebuilds ==
    call.op \in {"NewResolver", "AddHost", "GetAllHosts"} =>
        /\ GetAllHosts(cfg) = call.initial \o call.added
        /\ call.op = "GetAllHosts" => call.out = call.initial \o call.added
        /\ \A k \in 1..Len(call.added) :
              ResolveLocal(cfg, hc, call.added[k].Hostname) # 0
        /\ HasHostCache(hc) =>
              /\ hc = Rebuild(cfg)
              /\ \A k \in 1..Len(call.added) :
                    Range(RecordsOfHost(cfg, Len(call.initial) + k))
                        \subseteq Range(ResolveFast(hc, call.added[k].Hostname, "A"))

\* ------------------------------------------------------------------------
\* Resolver.AddHost called from several goroutines (part_009)
\* ------------------------------------------------------------------------
\* a goroutine inside AddHost: the host it adds and the config.Hosts it read
InAddHost(at, host, hosts) == [pc |-> at, op |-> "AddHost", host |-> host, hosts |-> hosts]

InitConcurrentAdd ==
    /\ cfg \in {MkConfig(h, sHome, DefaultTTL, FALSE, <<>>, <<>>) : h \in AddHostLists}
    /\ hc = NewHostCache(cfg)
    /\ call = [op |-> "NewResolver", initial |-> cfg.Hosts, added |-> <<>>, out |-> <<>>]
    /\ pc = "idle"
    /\ req = NoRequest
    /\ resp = NoResponse
    /\ qi = 0
    /\ ui = 0
    /\ queries = <<>>
    /\ reply = NoReply
    /\ written = <<>>
    /\ AuxInit

\* a goroutine calls AddHost with a host that is not configured yet
AddHostEnter(r, host) ==
    /\ rd[r].pc = "idle"
    /\ Len(call.added) < MaxAdds
    /\ host \notin Range(call.initial) \cup Range(call.added)
    /\ rd' = [rd EXCEPT ![r] = InAddHost("load", host, <<>>)]
    /\ call' = [call EXCEPT !.op = "AddHost", !.added = Append(@, host)]
    /\ UNCHANGED <<cfg, hc, mutex, rb, clients, srv>>
    /\ UNCHANGED handlerVars

\* append(r.config.Hosts, host) reads r.config.Hosts; no lock is held
AddHostLoad(r) ==
    /\ rd[r].pc = "load"
    /\ rd' = [rd EXCEPT ![r] = InAddHost("store", rd[r].host, cfg.Hosts)]
    /\ UNCHANGED <<cfg, hc, call, mutex, rb, clients, srv>>
    /\ UNCHANGED handlerVars

\* r.config.Hosts = append(...): the list that was read, with the host at its end
AddHostStore(r) ==
    /\ rd[r].pc = "store"
    /\ cfg' = [cfg EXCEPT !.Hosts = Append(rd[r].hosts, rd[r].host)]
    /\ rd' = [rd EXCEPT ![r] = InAddHost("rebuild", rd[r].host, rd[r].hosts)]
    /\ UNCHANGED <<hc, call, mutex, rb, clients, srv>>
    /\ UNCHANGED handlerVars

\* r.hostCache.Rebuild(r.config), under the index's write lock, and the return
AddHostRebuild(r) ==
    /\ rd[r].pc = "rebuild"
    /\ mutex = Unlocked
    /\ hc' = Rebuild(cfg)
    /\ rd' = [rd EXCEPT ![r] = NoRead]
    /\ UNCHANGED <<cfg, call, mutex, rb, clients, srv>>
    /\ UNCHANGED handlerVars

NextConcurrentAdd ==
    \/ \E r \in Readers, host \in AddedHosts : AddHostEnter(r, host)
    \/ \E r \in Readers : AddHostLoad(r)
    \/ \E r \in Readers : AddHostStore(r)
    \/ \E r \in Readers : AddHostRebuild(r)

ConcurrentAddSpec == InitConcurrentAdd /\ [][NextConcurrentAdd]_vars

\* the number of times a host is in a list
Occurrences(hosts, host) == Cardinality({i \in 1..Len(hosts) : hosts[i] = host})

\* C37: when every AddHost call has returned, GetAllHosts holds every added
\* host exactly once and each is resolvable; at every moment the host list is
\* the initial hosts followed by added hosts, none of them twice, and the
\* index is the one built from a list of that shape.
C37_NoAddedHostLost ==
    /\ (\A r \in Readers : rd[r].pc = "idle") =>
          \A k \in 1..Len(call.added) :
              /\ Occurrences(GetAllHosts(cfg), call.added[k]) = 1
              /\ ResolveLocal(cfg, hc, call.added[k].Hostname) # 0
    /\ Len(cfg.Hosts) >= Len(call.initial)
    /\ SubSeq(cfg.Hosts, 1, Len(call.initial)) = call.initial
    /\ \A i \in (Len(call.initial) + 1)..Len(cfg.Hosts) :
          /\ cfg.Hosts[i] \in Range(call.added)
          /\ Occurrences(cfg.Hosts, cfg.Hosts[i]) = 1

\* ------------------------------------------------------------------------
\* SecureClient.getOrCreateClient called from several goroutines (part_010)
\* ------------------------------------------------------------------------
\* the number of getOrCreateClient calls of one run
MaxPoolCalls == 3

\* the upstreams the goroutines ask a client for: two keys, one of them with
\* both settings of verify
PoolCallUpstreams ==
    {[Protocol |-> "udp", Address |-> "8.8.8.8", Port |-> 53, Path |-> "", Verify |-> FALSE],
     [Protocol |-> "tls", Address |-> "1.1.1.1", Port |-> 853, Path |-> "", Verify |-> TRUE],
     [Protocol |-> "tls", Address |-> "1.1.1.1", Port |-> 853, Path |-> "", Verify |-> FALSE]}

\* a goroutine inside getOrCreateClient: its upstream and the client it holds
InGetOrCreate(at, upstream, client) ==
    [pc |-> at, op |-> "getOrCreateClient", upstream |-> upstream, client |-> client]

NilClient == [ptr |-> 0]

\* &dns.Client{...}: a client at an address of its own
Allocate(upstream, n) == [ptr |-> n] @@ NewClient(upstream)

\* a SecureClient with an empty pool; call.created lists the keys clients were
\* created for and call.returned the (key, client) pairs that calls returned
InitPool ==
    /\ cfg \in {MkConfig(<<>>, sHome, DefaultTTL, TRUE, <<>>, <<>>)}
    /\ hc = NewHostCache(cfg)
    /\ call = [op |-> "NewSecureClient", n |-> 0, created |-> <<>>, returned |-> {}]
    /\ pc = "idle"
    /\ req = NoRequest
    /\ resp = NoResponse
    /\ qi = 0
    /\ ui = 0
    /\ queries = <<>>
    /\ reply = NoReply
    /\ written = <<>>
    /\ AuxInit

\* a goroutine calls getOrCreateClient(upstream)
PoolEnter(g, upstream) ==
    /\ rd[g].pc = "idle"
    /\ call.n < MaxPoolCalls
    /\ rd' = [rd EXCEPT ![g] = InGetOrCreate("rlock", upstream, NilClient)]
    /\ call' = [call EXCEPT !.op = "getOrCreateClient", !.n = @ + 1]
    /\ UNCHANGED <<cfg, hc, mutex, rb, clients, srv>>
    /\ UNCHANGED handlerVars

\* sc.clientsMutex.RLock()
PoolRLock(g) ==
    /\ rd[g].pc = "rlock"
    /\ ~mutex.writer
    /\ mutex' = [mutex EXCEPT !.readers = @ + 1]
    /\ rd' = [rd EXCEPT ![g].pc = "check"]
    /\ UNCHANGED <<cfg, hc, call, rb, clients, srv>>
    /\ UNCHANGED handlerVars

\* the lookup under the read lock, and RUnlock: on a hit the pooled client is
\* returned, on a miss the goroutine goes on to the write lock
PoolCheck(g) ==
    /\ rd[g].pc = "check"
    /\ mutex' = [mutex EXCEPT !.readers = @ - 1]
    /\ IF ClientKey(rd[g].upstream) \in DOMAIN clients
       THEN /\ rd' = [rd EXCEPT ![g] = NoRead]
            /\ call' = [call EXCEPT !.returned =
                            @ \cup {<<ClientKey(rd[g].upstream),
                                      clients[ClientKey(rd[g].upstream)]>>}]
       ELSE /\ rd' = [rd EXCEPT ![g].pc = "lock"]
            /\ call' = call
    /\ UNCHANGED <<cfg, hc, rb, clients, srv>>
    /\ UNCHANGED handlerVars

\* sc.clientsMutex.Lock()
PoolLock(g) ==
    /\ rd[g].pc = "lock"
    /\ mutex = Unlocked
    /\ mutex' = [mutex EXCEPT !.writer = TRUE]
    /\ rd' = [rd EXCEPT ![g].pc = "recheck"]
    /\ UNCHANGED <<cfg, hc, call, rb, clients, srv>>
    /\ UNCHANGED handlerVars

\* variant: no second lookup under the write lock
PoolCreateUnchecked(g) ==
    /\ rd[g].pc = "recheck"
    /\ clients' = MapPut(clients, ClientKey(rd[g].upstream),
                         Allocate(rd[g].upstream, Len(call.created) + 1))
    /\ call' = [call EXCEPT !.created = Append(@, ClientKey(rd[g].upstream))]
    /\ rd' = [rd EXCEPT ![g] = InGetOrCreate("unlock", rd[g].upstream,
                                   Allocate(rd[g].upstream, Len(call.created) + 1))]
    /\ UNCHANGED <<cfg, hc, mutex, rb, srv>>
    /\ UNCHANGED handlerVars

\* the second lookup, under the write lock: the pooled client, or a new client
\* that is stored under the key
PoolCreate(g) ==
    /\ rd[g].pc = "recheck"
    /\ IF ClientKey(rd[g].upstream) \in DOMAIN clients
       THEN /\ rd' = [rd EXCEPT ![g] = InGetOrCreate("unlock", rd[g].upstream,
                                           clients[ClientKey(rd[g].upstream)])]
            /\ UNCHANGED <<clients, call, srv>>
       ELSE /\ clients' = MapPut(clients, ClientKey(rd[g].upstream),
                                 Allocate(rd[g].upstream, Len(call.created) + 1))
            /\ call' = [call EXCEPT !.created = Append(@, ClientKey(rd[g].upstream))]
            /\ rd' = [rd EXCEPT ![g] = InGetOrCreate("unlock", rd[g].upstream,
                                           Allocate(rd[g].upstream, Len(call.created) + 1))]
    /\ UNCHANGED <<cfg, hc, mutex, rb, srv>>
    /\ UNCHANGED handlerVars

\* the deferred sc.clientsMutex.Unlock() and the return
PoolUnlock(g) ==
    /\ rd[g].pc = "unlock"
    /\ mutex' = [mutex EXCEPT !.writer = FALSE]
    /\ call' = [call EXCEPT !.returned = @ \cup {<<ClientKey(rd[g].upstream), rd[g].client>>}]
    /\ rd' = [rd EXCEPT ![g] = NoRead]
    /\ UNCHANGED <<cfg, hc, rb, clients, srv>>
    /\ UNCHANGED handlerVars

NextPool ==
    \/ \E g \in Readers, u \in PoolCallUpstreams : PoolEnter(g, u)
    \/ \E g \in Readers : PoolRLock(g)
    \/ \E g \in Readers : PoolCheck(g)
    \/ \E g \in Readers : PoolLock(g)
    \/ \E g \in Readers : PoolCreate(g)
    \/ \E g \in Readers : PoolUnlock(g)

PoolSpec == InitPool /\ [][NextPool]_vars

\* C36: under every interleaving of getOrCreateClient calls one client is
\* created per key, every call for a key returns that instance, calls for
\* different keys return different instances, and a stored client is never
\* replaced or removed.
C36_OneClientPerKey ==
    /\ [](/\ \A i, j \in 1..Len(call.created) :
                call.created[i] = call.created[j] => i = j
          /\ \A a, b \in call.returned : (a[1] = b[1]) <=> (a[2].ptr = b[2].ptr)
          /\ \A a \in call.returned :
                a[1] \in DOMAIN clients /\ clients[a[1]] = a[2])
    /\ [][\A k \in DOMAIN clients : k \in DOMAIN clients' /\ clients'[k] = clients[k]]_vars

\* two calls for one key and one for another have returned, from both goroutines
C36_Witness ==
    /\ call.op = "getOrCreateClient"
    /\ call.n = MaxPoolCalls
    /\ \A g \in Readers : rd[g].pc = "idle"
    /\ Cardinality(call.returned) = 2
    /\ Len(call.created) = 2

\* ------------------------------------------------------------------------
\* Server (internal/server/server.go) over dns.Server
\* ------------------------------------------------------------------------
\* the calls of Start and of Stop, and the requests dispatched, of one run
MaxStarts == 2
MaxStops == 2
MaxDispatch == 2

\* server.address and server.port of the configurations a Server is made over
ServerAddrs ==
    {[Port |-> 8053, Address |-> "127.0.0.1"], [Port |-> 53, Address |-> "127.0.0.1"],
     [Port |-> 80, Address |-> "127.0.0.1"], [Port |-> 8053, Address |-> "999.999.999.999"]}

sPermission == "permission denied"
sInUse == "address already in use"
sNoHost == "no such host"
sPort53 == "cannot bind to port 53 (requires admin/root privileges). Try port 5353 for testing"
sPortCheck == "port check failed"
sStartFailed == "failed to start DNS server"
sNotStarted == "server not started"

\* net.ListenPacket("udp", addr): the error, in a process that is privileged
\* or not, with the port held by another socket or not
ListenPacket(c, privileged, held) ==
    IF ParseIP(c.Server.Address) = "nil" THEN sNoHost
    ELSE IF c.Server.Port > 0 /\ c.Server.Port < 1024 /\ ~privileged THEN sPermission
    ELSE IF held THEN sInUse
    ELSE NilError

\* an error of Start is the chain of its messages, outermost first; nil is
\* the empty chain
NoError == <<>>

\* Server.checkPort, given the error of its ListenPacket
checkPort(c, err) ==
    IF err # NilError
    THEN IF c.Server.Port = 53 THEN <<sPort53, err>> ELSE <<err>>
    ELSE NoError

\* NewServer: nothing listens, no goroutine is inside Start or Stop
NewServer(privileged, inUse) ==
    [state |-> "created", at |-> "idle", err |-> NoError, bind |-> "none",
     stop |-> "idle", stopErr |-> NilError, stopFrom |-> "none",
     starts |-> 0, stops |-> 0, dispatched |-> 0,
     privileged |-> privileged, inUse |-> inUse]

\* the port is held: by another process, or by this Server's own socket
Held == srv.inUse \/ srv.state \in {"listening", "draining"}

InitServer ==
    /\ cfg \in {MkFullConfig(a, <<>>, sHome, <<>>, "info") : a \in ServerAddrs}
    /\ hc = NewHostCache(cfg)
    /\ srv \in {NewServer(p, u) : p \in BOOLEAN, u \in BOOLEAN}
    /\ pc = "idle"
    /\ req = NoRequest
    /\ resp = NoResponse
    /\ qi = 0
    /\ ui = 0
    /\ queries = <<>>
    /\ reply = NoReply
    /\ written = <<>>
    /\ call = NoCall
    /\ mutex = Unlocked
    /\ rb = NoRebuild
    /\ rd = [r \in Readers |-> NoRead]
    /\ clients = NoClients

serverRest == <<cfg, hc, handlerVars, call, mutex, rb, rd, clients>>

\* Server.Start is called
StartEnter ==
    /\ srv.at \in {"idle", "returned"}
    /\ srv.starts < MaxStarts
    /\ srv' = [srv EXCEPT !.at = "checkPort", !.err = NoError, !.bind = "none",
                          !.starts = @ + 1]
    /\ UNCHANGED serverRest

\* Start's checkPort: the bind is tried and the socket closed at once; an
\* error is returned from Start as "port check failed"
StartCheckPort ==
    /\ srv.at = "checkPort"
    /\ LET e == ListenPacket(cfg, srv.privileged, Held) IN
       srv' = IF e # NilError
              THEN [srv EXCEPT !.at = "returned", !.bind = e,
                               !.err = <<sPortCheck>> \o checkPort(cfg, e)]
              ELSE [srv EXCEPT !.at = "listen"]
    /\ UNCHANGED serverRest

\* variant: a failed bind in ListenAndServe is not returned
StartListenSwallowsError ==
    /\ srv.at = "listen"
    /\ LET e == ListenPacket(cfg, srv.privileged, Held) IN
       srv' = IF e # NilError
              THEN [srv EXCEPT !.at = "returned", !.bind = e, !.err = NoError]
              ELSE [srv EXCEPT !.at = "serving", !.bind = NilError, !.state = "listening"]
    /\ UNCHANGED serverRest

\* s.server.ListenAndServe(), up to the serve loop: the socket is bound and
\* the dns.Server started, or the error of the bind is returned from Start as
\* "failed to start DNS server"
StartListen ==
    /\ srv.at = "listen"
    /\ LET e == ListenPacket(cfg, srv.privileged, Held) IN
       srv' = IF e # NilError
              THEN [srv EXCEPT !.at = "returned", !.bind = e,
                               !.err = <<sStartFailed, e>>]
              ELSE [srv EXCEPT !.at = "serving", !.bind = NilError, !.state = "listening"]
    /\ UNCHANGED serverRest

\* the serve loop reads a datagram and dispatches it to the handler
Dispatch ==
    /\ srv.state = "listening"
    /\ srv.dispatched < MaxDispatch
    /\ srv' = [srv EXCEPT !.dispatched = @ + 1]
    /\ UNCHANGED serverRest

\* the serve loop ends once the dns.Server has been shut down:
\* ListenAndServe returns nil and so does Start
StartReturn ==
    /\ srv.at = "serving"
    /\ srv.state = "draining"
    /\ srv' = [srv EXCEPT !.at = "returned", !.err = NoError]
    /\ UNCHANGED serverRest

\* Server.Stop is called
StopEnter ==
    /\ srv.stop \in {"idle", "returned"}
    /\ srv.stops < MaxStops
    /\ srv' = [srv EXCEPT !.stop = "shutdown", !.stopErr = NilError,
                          !.stopFrom = srv.state, !.stops = @ + 1]
    /\ UNCHANGED serverRest

\* s.server.Shutdown(): a dns.Server that is not started returns an error;
\* one that is started stops reading and waits for the serve loop
StopShutdown ==
    /\ srv.stop = "shutdown"
    /\ srv' = IF srv.state = "listening"
              THEN [srv EXCEPT !.stop = "wait", !.state = "draining"]
              ELSE [srv EXCEPT !.stop = "returned", !.stopErr = sNotStarted]
    /\ UNCHANGED serverRest

\* the serve loop has ended: Shutdown closes the socket and Stop returns nil
StopReturn ==
    /\ srv.stop = "wait"
    /\ srv.at = "returned"
    /\ srv' = [srv EXCEPT !.stop = "returned", !.stopErr = NilError, !.state = "stopped"]
    /\ UNCHANGED serverRest

\* another process binds the port, or closes its socket
OtherProcess ==
    /\ srv.inUse \/ srv.state \notin {"listening", "draining"}
    /\ srv' = [srv EXCEPT !.inUse = ~@]
    /\ UNCHANGED serverRest

NextServer ==
    \/ StartEnter
    \/ StartCheckPort
    \/ StartListen
    \/ Dispatch
    \/ StartReturn
    \/ StopEnter
    \/ StopShutdown
    \/ StopReturn
    \/ OtherProcess

ServerSpec == InitServer /\ [][NextServer]_vars

\* the steps of the lifecycle
LifecycleSteps ==
    {<<"created", "listening">>, <<"listening", "draining">>, <<"draining", "stopped">>}

\* C31: the Server goes from created to listening to draining to stopped and
\* never back; a Start that was serving returns only after Stop was called,
\* and with nil; a Stop called while listening returns nil; a stopped Server
\* dispatches no request.
C31_LifecycleNeverGoesBack ==
    [][/\ srv'.state # srv.state => <<srv.state, srv'.state>> \in LifecycleSteps
       /\ srv.state = "stopped" => srv'.dispatched = srv.dispatched
       /\ (srv.at = "serving" /\ srv'.at = "returned") =>
              (srv.state = "draining" /\ srv'.err = NoError)
       /\ (srv'.stop = "returned" /\ srv.stop # "returned" /\ srv.stopFrom = "listening") =>
              srv'.stopErr = NilError]_vars

\* C32: when the address and port cannot be bound, Start returns an error, the
\* Server does not listen and no request is dispatched.
C32_BindFailureIsFatal ==
    /\ [](srv.bind \notin {"none", NilError} =>
              /\ srv.at = "returned"
              /\ srv.err # NoError
              /\ srv.state # "listening")
    /\ [][srv.bind \notin {"none", NilError} /\ srv'.bind = srv.bind =>
              srv'.dispatched = srv.dispatched]_vars

\* Start has returned the error of a port that another process holds
C32_Witness ==
    /\ srv.at = "returned"
    /\ srv.bind = sInUse
    /\ srv.err = <<sStartFailed, sInUse>>
    /\ srv.state = "created"
    /\ srv.dispatched = 0

\* C33: a Start whose bind of a port below 1024 fails for lack of privilege
\* returns the privileged-port error.
C33_PrivilegedPortError ==
    (srv.at = "returned" /\ srv.bind = sPermission /\ cfg.Server.Port < 1024) =>
        srv.err = <<sPortCheck, sPort53, sPermission>>

====
